---------------------------- MODULE Spec2Model ----------------------------
(***************************************************************************)
(* A model of gcp-todoist-runner's classification and inference engine:    *)
(* src/src/core/processing.py, src/src/utils/validators.py,               *)
(* src/src/utils/frequency_labels.py, the batch-wide passes and the whole  *)
(* run of src/src/main.py, and the command line run of                     *)
(* src/src/run_service.py.                                                 *)
(*                                                                         *)
(* Python values are records tagged by k: None, str (s: the string as a    *)
(* sequence of characters, each a one-character TLA+ string), bool, int,   *)
(* datetime.  A character outside ASCII is written as a named token        *)
(* ("a_acute" is U+00E1) and is still ONE element of the sequence, as it   *)
(* is one code point of the Python str.  A dict is a record over every key *)
(* the code reads, a missing key holding Absent.  A call that raises       *)
(* yields Raise(<exception class>).                                        *)
(***************************************************************************)
EXTENDS Integers, Sequences, FiniteSets, TLC

(***************************************************************************)
(* Bounds of the model.                                                    *)
(***************************************************************************)
\* the batch handed to categorize_tasks holds at most MaxTasks tasks
MaxTasks == 2
\* validate_ticket_name is called with min_title_len from 0 to MaxMinTitleLen
MaxMinTitleLen == 3
\* the sampled due dates include DateSpan consecutive days from 2025-11-17
DateSpan == 7

(***************************************************************************)
(* Python values.                                                          *)
(***************************************************************************)
None == [k |-> "None"]
Absent == [k |-> "absent"]
PyStr(s) == [k |-> "str", s |-> s]
PyBool(b) == [k |-> "bool", b |-> b]
PyInt(n) == [k |-> "int", n |-> n]
Raise(e) == [k |-> "raise", exc |-> e]
IsRaise(v) == "exc" \in DOMAIN v

\* bool(v) for the kinds of values the model holds
Truthy(v) ==
    CASE v.k = "None" -> FALSE
      [] v.k = "absent" -> FALSE
      [] v.k = "str" -> v.s # <<>>
      [] v.k = "bool" -> v.b
      [] v.k = "int" -> v.n # 0
      [] OTHER -> TRUE

\* dict.get(key): the value, or None when the key is missing
Get(d, key) == IF d[key] = Absent THEN None ELSE d[key]
\* dict.get(key, default)
GetOr(d, key, default) == IF d[key] = Absent THEN default ELSE d[key]
\* key in dict
HasKey(d, key) == d[key] # Absent

(***************************************************************************)
(* str methods, on sequences of characters.                                *)
(***************************************************************************)
UpperChars == <<"A","B","C","D","E","F","G","H","I","J","K","L","M","N","O","P",
                "Q","R","S","T","U","V","W","X","Y","Z",
                "A_acute","E_acute","I_acute">>
LowerChars == <<"a","b","c","d","e","f","g","h","i","j","k","l","m","n","o","p",
                "q","r","s","t","u","v","w","x","y","z",
                "a_acute","e_acute","i_acute">>
DigitChars == <<"0","1","2","3","4","5","6","7","8","9">>

IsUpper(c) == \E i \in 1..Len(UpperChars) : UpperChars[i] = c
IsLowerCh(c) == \E i \in 1..Len(LowerChars) : LowerChars[i] = c
IsDigit(c) == \E i \in 1..10 : DigitChars[i] = c
DigitVal(c) == (CHOOSE i \in 1..10 : DigitChars[i] = c) - 1
\* str.isspace for one character
IsSpace(c) == c \in {" ", "\t", "\n"}

LowerChar(c) ==
    IF IsUpper(c) THEN LowerChars[CHOOSE i \in 1..Len(UpperChars) : UpperChars[i] = c]
    ELSE c
\* str.lower()
Lower(s) == [i \in 1..Len(s) |-> LowerChar(s[i])]
\* sub in s
Contains(sub, s) ==
    \E i \in 0..(Len(s) - Len(sub)) : SubSeq(s, i + 1, i + Len(sub)) = sub
\* s.startswith(p)
StartsWith(s, p) == Len(s) >= Len(p) /\ SubSeq(s, 1, Len(p)) = p
\* s[:n]
Prefix(s, n) == SubSeq(s, 1, IF Len(s) < n THEN Len(s) ELSE n)

RECURSIVE SplitAt(_, _)
\* s.split() from position i on: the maximal runs of non-whitespace
SplitAt(s, i) ==
    IF i > Len(s) THEN <<>>
    ELSE IF IsSpace(s[i]) THEN SplitAt(s, i + 1)
    ELSE LET stops == {j \in i..Len(s) : IsSpace(s[j])}
             e == IF stops = {} THEN Len(s) + 1
                  ELSE CHOOSE j \in stops : \A j2 \in stops : j <= j2
         IN <<SubSeq(s, i, e - 1)>> \o SplitAt(s, e)
Split(s) == SplitAt(s, 1)

RECURSIVE LStrip(_)
LStrip(s) == IF s # <<>> /\ IsSpace(s[1]) THEN LStrip(Tail(s)) ELSE s
RECURSIVE RStrip(_)
RStrip(s) ==
    IF s # <<>> /\ IsSpace(s[Len(s)]) THEN RStrip(SubSeq(s, 1, Len(s) - 1)) ELSE s
\* str.strip()
Strip(s) == LStrip(RStrip(s))

RECURSIVE Pad2(_)
\* f"{n:02d}": at least two digits
Pad2(n) == IF n < 100 THEN <<DigitChars[(n \div 10) + 1], DigitChars[(n % 10) + 1]>>
           ELSE Pad2(n \div 10) \o <<DigitChars[(n % 10) + 1]>>
\* the four-digit year of isoformat
Pad4(n) == <<DigitChars[((n \div 1000) % 10) + 1], DigitChars[((n \div 100) % 10) + 1],
             DigitChars[((n \div 10) % 10) + 1], DigitChars[(n % 10) + 1]>>

(***************************************************************************)
(* The proleptic Gregorian calendar of datetime.                           *)
(***************************************************************************)
IsLeap(y) == y % 4 = 0 /\ (y % 100 # 0 \/ y % 400 = 0)
DaysInMonth(y, m) ==
    IF m = 2 THEN (IF IsLeap(y) THEN 29 ELSE 28)
    ELSE IF m \in {4, 6, 9, 11} THEN 30 ELSE 31
DaysBeforeYear(y) ==
    LET p == y - 1 IN p * 365 + (p \div 4) - (p \div 100) + (p \div 400)
DaysBeforeMonthTable == <<0, 31, 59, 90, 120, 151, 181, 212, 243, 273, 304, 334>>
DaysBeforeMonth(y, m) ==
    DaysBeforeMonthTable[m] + (IF m > 2 /\ IsLeap(y) THEN 1 ELSE 0)
\* date.toordinal()
Ymd2Ord(y, m, d) == DaysBeforeYear(y) + DaysBeforeMonth(y, m) + d
\* date.max is 9999-12-31
MaxOrdinal == Ymd2Ord(9999, 12, 31)
\* date.fromordinal(n), for 1 <= n <= MaxOrdinal
Ord2Ymd(n) ==
    LET y0 == (n * 400) \div 146097
        y == CHOOSE yy \in (y0 - 1)..(y0 + 2) :
                 yy >= 1 /\ DaysBeforeYear(yy) < n /\ n <= DaysBeforeYear(yy + 1)
        r == n - DaysBeforeYear(y)
        m == CHOOSE mm \in 1..12 :
                 DaysBeforeMonth(y, mm) < r /\ r <= DaysBeforeMonth(y, mm) + DaysInMonth(y, mm)
    IN [y |-> y, m |-> m, d |-> r - DaysBeforeMonth(y, m)]

(***************************************************************************)
(* datetime objects: the fields, aware (tzinfo is not None) and off, the   *)
(* utc offset in minutes of a fixed-offset tzinfo (0 when naive).          *)
(***************************************************************************)
DateTime(y, m, d, hh, mi, ss, aware, off) ==
    [k |-> "datetime", y |-> y, m |-> m, d |-> d, hh |-> hh, mi |-> mi, ss |-> ss,
     aware |-> aware, off |-> off]
\* datetime.date(): the calendar date, as (y, m, d)
DateOf(dt) == [y |-> dt.y, m |-> dt.m, d |-> dt.d]
\* date < date
DateLess(a, b) == Ymd2Ord(a.y, a.m, a.d) < Ymd2Ord(b.y, b.m, b.d)
\* datetime.replace(tzinfo=tz)
ReplaceTz(dt, off) == [dt EXCEPT !.aware = TRUE, !.off = off]
\* datetime.weekday(): 0 is Monday
Weekday(dt) == (Ymd2Ord(dt.y, dt.m, dt.d) + 6) % 7
\* date.isoformat()
DateIso(dd) == Pad4(dd.y) \o <<"-">> \o Pad2(dd.m) \o <<"-">> \o Pad2(dd.d)
\* minutes since the epoch of the ordinal, in UTC
UtcMinutes(dt) == Ymd2Ord(dt.y, dt.m, dt.d) * 1440 + dt.hh * 60 + dt.mi - dt.off
\* a < b for two datetimes: comparing a naive with an aware one raises TypeError
DtLess(a, b) ==
    IF a.aware # b.aware THEN Raise("TypeError")
    ELSE PyBool(\/ UtcMinutes(a) < UtcMinutes(b)
                \/ UtcMinutes(a) = UtcMinutes(b) /\ a.ss < b.ss)
\* datetime + timedelta(days=n): OverflowError past the last date of the calendar
AddDays(dt, n) ==
    LET o == Ymd2Ord(dt.y, dt.m, dt.d) + n IN
    IF o < 1 \/ o > MaxOrdinal THEN Raise("OverflowError")
    ELSE LET r == Ord2Ymd(o) IN [dt EXCEPT !.y = r.y, !.m = r.m, !.d = r.d]
\* dt + relativedelta(days=n): relativedelta.__radd__ adds timedelta(days=n)
AddRelDays(dt, n) == AddDays(dt, n)
\* dt + relativedelta(months=n), 0 <= n: the month moves, the day is cut to the
\* month's length; ValueError when the year leaves the calendar
AddRelMonths(dt, n) ==
    LET mraw == dt.m + n
        year == IF mraw > 12 THEN dt.y + 1 ELSE dt.y
        month == IF mraw > 12 THEN mraw - 12 ELSE mraw
    IN IF year > 9999 THEN Raise("ValueError")
       ELSE LET dim == DaysInMonth(year, month)
                day == IF dt.d < dim THEN dt.d ELSE dim
            IN [dt EXCEPT !.y = year, !.m = month, !.d = day]

(***************************************************************************)
(* datetime.fromisoformat, for the forms the task service emits and their  *)
(* malformed neighbours: YYYY-MM-DD, optionally followed by one separator  *)
(* character and HH:MM or HH:MM:SS, optionally followed by +HH:MM or       *)
(* -HH:MM.  Anything else is a ValueError; a non-str is a TypeError.       *)
(***************************************************************************)
TwoDigits(s, i) == IsDigit(s[i]) /\ IsDigit(s[i + 1])
Num2(s, i) == DigitVal(s[i]) * 10 + DigitVal(s[i + 1])
DateShapeOk(s) ==
    /\ Len(s) >= 10
    /\ \A i \in {1, 2, 3, 4, 6, 7, 9, 10} : IsDigit(s[i])
    /\ s[5] = "-" /\ s[8] = "-"
TimeShapeOk(t) ==
    /\ Len(t) \in {5, 8}
    /\ TwoDigits(t, 1) /\ t[3] = ":" /\ TwoDigits(t, 4)
    /\ Len(t) = 8 => (t[6] = ":" /\ TwoDigits(t, 7))
OffsetShapeOk(z) ==
    /\ Len(z) = 6
    /\ z[1] \in {"+", "-"}
    /\ TwoDigits(z, 2) /\ z[4] = ":" /\ TwoDigits(z, 5)
\* where the utc offset starts in the time part t, or 0 when it has none
OffsetStart(t) ==
    LET signs == {i \in 1..Len(t) : t[i] \in {"+", "-"}}
    IN IF signs = {} THEN 0 ELSE CHOOSE i \in signs : \A j \in signs : i <= j
fromisoformat(v) ==
    IF v.k # "str" THEN Raise("TypeError")
    ELSE LET s == v.s IN
    IF ~DateShapeOk(s) THEN Raise("ValueError")
    ELSE LET y == DigitVal(s[1]) * 1000 + DigitVal(s[2]) * 100 + Num2(s, 3)
             m == Num2(s, 6)
             d == Num2(s, 9)
    IN IF y < 1 \/ m < 1 \/ m > 12 THEN Raise("ValueError")
       ELSE IF d < 1 \/ d > DaysInMonth(y, m) THEN Raise("ValueError")
       ELSE IF Len(s) = 10 THEN DateTime(y, m, d, 0, 0, 0, FALSE, 0)
       ELSE LET t == SubSeq(s, 12, Len(s))
                zs == OffsetStart(t)
                clock == IF zs = 0 THEN t ELSE SubSeq(t, 1, zs - 1)
                z == IF zs = 0 THEN <<>> ELSE SubSeq(t, zs, Len(t))
            IN IF ~TimeShapeOk(clock) \/ (zs # 0 /\ ~OffsetShapeOk(z))
               THEN Raise("ValueError")
               ELSE LET hh == Num2(clock, 1)
                        mi == Num2(clock, 4)
                        ss == IF Len(clock) = 8 THEN Num2(clock, 7) ELSE 0
                        zh == IF zs = 0 THEN 0 ELSE Num2(z, 2)
                        zm == IF zs = 0 THEN 0 ELSE Num2(z, 5)
                        off == IF zs # 0 /\ z[1] = "-" THEN 0 - (zh * 60 + zm)
                               ELSE zh * 60 + zm
                    IN IF hh > 23 \/ mi > 59 \/ ss > 59 \/ zh > 23 \/ zm > 59
                       THEN Raise("ValueError")
                       ELSE DateTime(y, m, d, hh, mi, ss, zs # 0, off)

(***************************************************************************)
(* The recurrence predictor.                                               *)
(***************************************************************************)
\* the weekday abbreviations of both languages, with datetime's weekday index
weekday_map ==
    { <<(<<"l","u","n">>), 0>>, <<(<<"m","a","r">>), 1>>, <<(<<"m","i","e_acute">>), 2>>,
      <<(<<"m","i","e">>), 2>>, <<(<<"j","u","e">>), 3>>, <<(<<"v","i","e">>), 4>>,
      <<(<<"s","a_acute","b">>), 5>>, <<(<<"s","a","b">>), 5>>, <<(<<"d","o","m">>), 6>>,
      <<(<<"m","o","n">>), 0>>, <<(<<"t","u","e">>), 1>>, <<(<<"w","e","d">>), 2>>,
      <<(<<"t","h","u">>), 3>>, <<(<<"f","r","i">>), 4>>, <<(<<"s","a","t">>), 5>>,
      <<(<<"s","u","n">>), 6>> }
\* weekday_map.get(wd)
weekday_map_get(wd) ==
    IF \E p \in weekday_map : p[1] = wd
    THEN PyInt((CHOOSE p \in weekday_map : p[1] = wd)[2])
    ELSE None

\* (dt).date().isoformat() of the outcome r of a date addition, which may have raised
IsoDateOf(r) == IF IsRaise(r) THEN r ELSE PyStr(DateIso(DateOf(r)))

\* a variant that keeps a 0-day distance, so a due date on the weekday repeats itself
_infer_next_weekday_recurrence_same_day(due_dt, recur_str) ==
    LET parts == Split(recur_str) IN
    IF Len(parts) >= 2
    THEN LET wd == Prefix(parts[2], 3)
             wd_idx == weekday_map_get(wd)
         IN IF wd_idx # None
            THEN IsoDateOf(AddRelDays(due_dt, (wd_idx.n - Weekday(due_dt) + 7) % 7))
            ELSE None
    ELSE None
\* a variant that always skips the weekday of the coming week
_infer_next_weekday_recurrence_week_later(due_dt, recur_str) ==
    LET parts == Split(recur_str) IN
    IF Len(parts) >= 2
    THEN LET wd == Prefix(parts[2], 3)
             wd_idx == weekday_map_get(wd)
         IN IF wd_idx # None
            THEN IsoDateOf(AddRelDays(due_dt, ((wd_idx.n - Weekday(due_dt) + 7) % 7) + 7))
            ELSE None
    ELSE None

_infer_next_weekday_recurrence(due_dt, recur_str) ==
    LET parts == Split(recur_str) IN
    IF Len(parts) >= 2
    THEN LET wd == Prefix(parts[2], 3)
             wd_idx == weekday_map_get(wd)
         IN IF wd_idx # None
            THEN LET days0 == (wd_idx.n - Weekday(due_dt) + 7) % 7
                     days_ahead == IF days0 = 0 THEN 7 ELSE days0
                 IN IsoDateOf(AddRelDays(due_dt, days_ahead))
            ELSE None
    ELSE None

CadaMes == <<"c","a","d","a"," ","m","e","s">>
EveryMonth == <<"e","v","e","r","y"," ","m","o","n","t","h">>
CadaDia == <<"c","a","d","a"," ","d","i_acute","a">>
EveryDay == <<"e","v","e","r","y"," ","d","a","y">>
CadaSemana == <<"c","a","d","a"," ","s","e","m","a","n","a">>
EveryWeek == <<"e","v","e","r","y"," ","w","e","e","k">>
CadaPrefix == <<"c","a","d","a"," ">>
EveryPrefix == <<"e","v","e","r","y"," ">>

\* the catalogue, once the due date has parsed to due_dt
InferFromPhrase(due_dt, recur_str) ==
    IF Contains(CadaMes, recur_str) \/ Contains(EveryMonth, recur_str)
    THEN IsoDateOf(AddRelMonths(due_dt, 1))
    ELSE IF Contains(CadaDia, recur_str) \/ Contains(EveryDay, recur_str)
    THEN IsoDateOf(AddRelDays(due_dt, 1))
    ELSE IF Contains(CadaSemana, recur_str) \/ Contains(EveryWeek, recur_str)
    THEN IsoDateOf(AddRelDays(due_dt, 7))
    ELSE IF StartsWith(recur_str, CadaPrefix) \/ StartsWith(recur_str, EveryPrefix)
    THEN _infer_next_weekday_recurrence(due_dt, recur_str)
    ELSE None

\* a variant that compares the phrase as written, without lower()
RecurStr_as_written(due_dict) ==
    LET v == GetOr(due_dict, "string", PyStr(<<>>)) IN
    IF v.k = "str" THEN v ELSE Raise("AttributeError")

\* due_dict.get("string", "").lower(): only a str has the method
RecurStr(due_dict) ==
    LET v == GetOr(due_dict, "string", PyStr(<<>>)) IN
    IF v.k = "str" THEN PyStr(Lower(v.s)) ELSE Raise("AttributeError")

\* a variant that consults the shortcut only when the catalogue gave nothing
infer_next_recurrence_shortcut_last(due_dict) ==
    LET due_date_str == Get(due_dict, "date")
        recur_str == RecurStr(due_dict)
        parsed == fromisoformat(due_date_str)
        inferred == IF IsRaise(recur_str) THEN recur_str
                    ELSE IF ~Truthy(due_date_str) \/ IsRaise(parsed) THEN None
                    ELSE InferFromPhrase(parsed, recur_str.s)
    IN IF inferred = None /\ Truthy(Get(due_dict, "next_recurring_date"))
       THEN Get(due_dict, "next_recurring_date")
       ELSE inferred

infer_next_recurrence(due_dict) ==
    LET next_recurrence_date == Get(due_dict, "next_recurring_date") IN
    IF Truthy(next_recurrence_date) THEN next_recurrence_date
    ELSE LET due_date_str == Get(due_dict, "date")
             recur_str == RecurStr(due_dict)
         IN IF IsRaise(recur_str) THEN recur_str
            ELSE IF ~Truthy(due_date_str) THEN None
            ELSE LET parsed == fromisoformat(due_date_str)
                     \* except (ValueError, TypeError): due_dt = None
                     due_dt == IF IsRaise(parsed) THEN None ELSE parsed
                 IN IF Truthy(due_dt) THEN InferFromPhrase(due_dt, recur_str.s)
                    ELSE None

(***************************************************************************)
(* The due-date normalizer.  due_obj is None, or the dict its to_dict()    *)
(* returns.                                                                *)
(***************************************************************************)
DueKeys == {"date", "string", "recurring", "is_recurring", "next_recurring_date",
            "next_recurrence_date", "frequency"}
\* a dict with no key at all
EmptyDict == [key \in DueKeys |-> Absent]
IsEmptyDict(d) == \A key \in DueKeys : d[key] = Absent

\* a variant that predicts for every due info, recurring or not
_process_due_obj_always_infers(due_obj) ==
    IF due_obj = None THEN None
    ELSE IF IsEmptyDict(due_obj) THEN None
    ELSE LET nxt == infer_next_recurrence(due_obj) IN
         IF IsRaise(nxt) THEN nxt
         ELSE LET d1 == [due_obj EXCEPT !["next_recurrence_date"] = nxt]
                  d2 == IF HasKey(d1, "string") /\ ~HasKey(d1, "frequency")
                        THEN [d1 EXCEPT !["frequency"] = Get(d1, "string")]
                        ELSE d1
              IN [d2 EXCEPT !["string"] = Absent]

_process_due_obj(due_obj) ==
    IF due_obj = None THEN None
    ELSE IF IsEmptyDict(due_obj) THEN None
    ELSE LET due_dict == due_obj
             is_recurring ==
                 Truthy(Get(due_dict, "recurring")) \/ Truthy(Get(due_dict, "is_recurring"))
         IN IF is_recurring
            THEN LET nxt == infer_next_recurrence(due_dict) IN
                 IF IsRaise(nxt) THEN nxt
                 ELSE LET d1 == [due_dict EXCEPT !["next_recurrence_date"] = nxt]
                          d2 == IF HasKey(d1, "string") /\ ~HasKey(d1, "frequency")
                                THEN [d1 EXCEPT !["frequency"] = Get(d1, "string")]
                                ELSE d1
                      IN [d2 EXCEPT !["string"] = Absent]
            ELSE due_dict

(***************************************************************************)
(* The ticket-title parser (src/src/utils/validators.py).                  *)
(***************************************************************************)
\* the code points of the characters written as named tokens; every other
\* character of the model is ASCII or Latin-1, below every range tested here
NamedCodePoints ==
    [GREEN_CIRCLE |-> 128994, BLUE_CIRCLE |-> 128309, YELLOW_CIRCLE |-> 128993,
     ORANGE_CIRCLE |-> 128992, RED_CIRCLE |-> 128308, PHONE_OFF |-> 128244,
     VS15 |-> 65038, VS16 |-> 65039, ZWJ |-> 8205, ZWSP |-> 8203, BOM |-> 65279]
CodePoint(c) == IF c \in DOMAIN NamedCodePoints THEN NamedCodePoints[c] ELSE 0

\* \w under re.UNICODE: alphanumerics and the underscore
IsWordChar(c) == IsUpper(c) \/ IsLowerCh(c) \/ IsDigit(c) \/ c = "_"
\* [A-Z]
IsAsciiUpper(c) == \E i \in 1..26 : UpperChars[i] = c
\* a character of _EMOJI_RANGES
InEmojiRanges(c) ==
    LET n == CodePoint(c) IN
    \/ 127744 <= n /\ n <= 128511
    \/ 128512 <= n /\ n <= 128591
    \/ 128640 <= n /\ n <= 128767
    \/ 9728 <= n /\ n <= 9983
    \/ 9984 <= n /\ n <= 10175
    \/ 129280 <= n /\ n <= 129535
    \/ 129648 <= n /\ n <= 129791
\* a character of _INVISIBLE_EDGE_CHARS_RE's class
IsInvisibleEdge(c) == CodePoint(c) \in {65038, 65039, 8205, 8203, 65279}

\* \([A-Z]\d{2}-\d{2}-\d{2}\) at position c of s
IdAt(s, c) ==
    /\ c + 10 <= Len(s)
    /\ s[c] = "(" /\ IsAsciiUpper(s[c + 1])
    /\ IsDigit(s[c + 2]) /\ IsDigit(s[c + 3]) /\ s[c + 4] = "-"
    /\ IsDigit(s[c + 5]) /\ IsDigit(s[c + 6]) /\ s[c + 7] = "-"
    /\ IsDigit(s[c + 8]) /\ IsDigit(s[c + 9]) /\ s[c + 10] = ")"
\* the number of whitespace characters of s from position i on
WsRun(s, i) ==
    LET ends == {j \in i..(Len(s) + 1) : j = Len(s) + 1 \/ ~IsSpace(s[j])}
    IN (CHOOSE j \in ends : \A j2 \in ends : j <= j2) - i
\* the last character of s that is not whitespace, or 0
LastNonSpace(s) ==
    LET ns == {j \in 1..Len(s) : ~IsSpace(s[j])}
    IN IF ns = {} THEN 0 ELSE CHOOSE j \in ns : \A j2 \in ns : j2 <= j

(***************************************************************************)
(* _RE.match(s): the ways _PATTERN matches s are the triples <<b, w1, w2>>:*)
(* freq ends at b, w1 whitespace characters go to the \s* before           *)
(* ticket_emoji and w2 to the \s* before title.  The backtracking matcher  *)
(* returns the first in the order of its choices: the lazy \S+? as short   *)
(* as possible, then each greedy \s* as long as possible.                  *)
(***************************************************************************)
\* where freq starts: after the leading whitespace
FreqStart(s) == 1 + WsRun(s, 1)
\* where the id starts when freq ends at b
IdStart(s, b) == b + 1 + WsRun(s, b + 1)
\* the matches whose freq ends at b
MatchesFrom(s, b) ==
    LET e == IdStart(s, b) + 11
        u == LastNonSpace(s)
        W1 == {w1 \in 0..WsRun(s, e) : e + w1 <= Len(s) /\ ~IsWordChar(s[e + w1])}
        \* .+\S and then \s*$ : two characters at least, up to the last one
        \* that is not whitespace, "." matching no line feed
        W2(w1) == {w2 \in 0..WsRun(s, e + w1 + 1) :
                     LET ts == e + w1 + 1 + w2
                     IN ts + 1 <= u /\ \A i \in ts..(u - 1) : s[i] # "\n"}
    IN UNION { {<<b, w1, w2>> : w2 \in W2(w1)} : w1 \in W1 }
PatternMatches(s) ==
    LET a == FreqStart(s)
        B == {b \in a..Len(s) : (\A i \in a..b : ~IsSpace(s[i])) /\ IdAt(s, IdStart(s, b))}
    IN UNION { MatchesFrom(s, b) : b \in B }
Preferred(t1, t2) ==
    \/ t1[1] < t2[1]
    \/ t1[1] = t2[1] /\ t1[2] > t2[2]
    \/ t1[1] = t2[1] /\ t1[2] = t2[2] /\ t1[3] >= t2[3]
\* m.groupdict() of the match t
GroupDict(s, t) ==
    [k |-> "dict",
     freq |-> PyStr(SubSeq(s, FreqStart(s), t[1])),
     id |-> PyStr(SubSeq(s, IdStart(s, t[1]), IdStart(s, t[1]) + 10)),
     ticket_emoji |-> PyStr(<<s[IdStart(s, t[1]) + 11 + t[2]]>>),
     title |-> PyStr(SubSeq(s, IdStart(s, t[1]) + 12 + t[2] + t[3], LastNonSpace(s))),
     text |-> Absent]
\* the groups of the match the matcher finds first among ms, or None
FirstMatch(s, ms) ==
    IF ms = {} THEN None
    ELSE GroupDict(s, CHOOSE t1 \in ms : \A t2 \in ms : Preferred(t1, t2))
\* _RE.match(s), as m.groupdict(), or None when there is no match
ReMatch(s) == FirstMatch(s, PatternMatches(s))

\* the length of the run of _EMOJI_RANGES characters that starts the title
LeadLen(title) ==
    LET ends == {j \in 1..(Len(title) + 1) : j = Len(title) + 1 \/ ~InEmojiRanges(title[j])}
    IN (CHOOSE j \in ends : \A j2 \in ends : j <= j2) - 1
\* title.replace("*", "")
RECURSIVE RemoveStars(_)
RemoveStars(s) ==
    IF s = <<>> THEN <<>>
    ELSE IF s[1] = "*" THEN RemoveStars(Tail(s))
    ELSE <<s[1]>> \o RemoveStars(Tail(s))
\* _INVISIBLE_EDGE_CHARS_RE.sub("", title): the run at the start and the run
\* at the end are removed
TrimInvisible(s) ==
    LET vis == {j \in 1..Len(s) : ~IsInvisibleEdge(s[j])}
    IN IF vis = {} THEN <<>>
       ELSE SubSeq(s, CHOOSE j \in vis : \A j2 \in vis : j <= j2,
                      CHOOSE j \in vis : \A j2 \in vis : j2 <= j)
\* s.strip("()")
RECURSIVE StripParens(_)
StripParens(s) ==
    IF s # <<>> /\ s[1] \in {"(", ")"} THEN StripParens(Tail(s))
    ELSE IF s # <<>> /\ s[Len(s)] \in {"(", ")"} THEN StripParens(SubSeq(s, 1, Len(s) - 1))
    ELSE s

\* the (ok, parts) tuples validate_ticket_name returns
Invalid == [ok |-> FALSE, parts |-> None]
Valid(parts) == [ok |-> TRUE, parts |-> parts]

\* the steps of validate_ticket_name after the match, each handing the parts
\* and the title it has so far to the next
\* a variant that accepts a text of any length
LengthChecked_any_length(parts, title, min_title_len) ==
    Valid([parts EXCEPT !.text = PyStr(title),
                        !.title = Absent,
                        !.id = PyStr(StripParens(parts.id.s))])
\* text shorter than min_title_len: (False, None); else id without parentheses
LengthChecked(parts, title, min_title_len) ==
    IF Len(title) < min_title_len THEN Invalid
    ELSE Valid([parts EXCEPT !.text = PyStr(title),
                             !.title = Absent,
                             !.id = PyStr(StripParens(parts.id.s))])
\* invisible characters at the edges of the title go
InvisibleTrimmed(parts, title, min_title_len) ==
    LengthChecked(parts,
                  IF title # <<>> THEN Strip(TrimInvisible(title)) ELSE title,
                  min_title_len)
\* the asterisks of the title go
StarsRemoved(parts, title, min_title_len) ==
    InvisibleTrimmed(parts,
                     IF Contains(<<"*">>, title) THEN Strip(RemoveStars(title)) ELSE title,
                     min_title_len)
\* m2: the emoji-range characters that start the title move to ticket_emoji
LeadingEmojiMoved(parts, title, min_title_len) ==
    IF LeadLen(title) > 0
    THEN StarsRemoved([parts EXCEPT !.ticket_emoji =
                           PyStr(parts.ticket_emoji.s \o SubSeq(title, 1, LeadLen(title)))],
                      Strip(SubSeq(title, LeadLen(title) + 1, Len(title))),
                      min_title_len)
    ELSE StarsRemoved(parts, title, min_title_len)
\* if not m: (False, None)
Matched(m, min_title_len) ==
    IF m = None THEN Invalid
    ELSE LeadingEmojiMoved(m, Strip(m.title.s), min_title_len)

validate_ticket_name(v, min_title_len) ==
    IF v.k # "str" THEN Invalid ELSE Matched(ReMatch(v.s), min_title_len)

(***************************************************************************)
(* Frequency labels (src/src/utils/frequency_labels.py).                   *)
(***************************************************************************)
Frequency(emoji, name, number) == [emoji |-> emoji, name |-> name, number |-> number]
DAILY == Frequency(<<"GREEN_CIRCLE">>, <<"d","a","i","l","y">>, 1)
MULTIWEEKLY ==
    Frequency(<<"BLUE_CIRCLE">>, <<"m","u","l","t","i","w","e","e","k","l","y">>, 2)
WEEKLY == Frequency(<<"YELLOW_CIRCLE">>, <<"w","e","e","k","l","y">>, 3)
MULTIMONTHLY ==
    Frequency(<<"ORANGE_CIRCLE">>, <<"m","u","l","t","i","m","o","n","t","h","l","y">>, 4)
MONTHLY == Frequency(<<"RED_CIRCLE">>, <<"m","o","n","t","h","l","y">>, 5)
\* Frequency.label: f"{emoji}frequency-{number:02d}-{name}"
label(f) ==
    f.emoji \o <<"f","r","e","q","u","e","n","c","y","-">> \o Pad2(f.number)
            \o <<"-">> \o f.name
\* the values of _LABEL_MAP
AllFrequencies == {DAILY, MULTIWEEKLY, WEEKLY, MONTHLY, MULTIMONTHLY}
\* FrequencyLabels.from_label(lab): KeyError for a label that is no key
from_label(lab) ==
    IF \E f \in AllFrequencies : label(f) = lab
    THEN CHOOSE f \in AllFrequencies : label(f) = lab
    ELSE Raise("KeyError")

_detect_frequencies_first_only(labels) ==
    LET Known(lab) == from_label(lab) # Raise("KeyError")
        known == SelectSeq(labels, Known)
    IN IF known = <<>> THEN <<>>
       ELSE <<[emoji |-> from_label(known[1]).emoji, name |-> from_label(known[1]).name,
               number |-> from_label(known[1]).number]>>
RECURSIVE _detect_frequencies(_)
_detect_frequencies(labels) ==
    IF labels = <<>> THEN <<>>
    ELSE LET freq_obj == from_label(Head(labels)) IN
         IF freq_obj = Raise("KeyError") THEN _detect_frequencies(Tail(labels))
         ELSE <<[emoji |-> freq_obj.emoji, name |-> freq_obj.name,
                 number |-> freq_obj.number]>> \o _detect_frequencies(Tail(labels))
_has_non_frequency_label(labels) ==
    \E i \in 1..Len(labels) : from_label(labels[i]) = Raise("KeyError")

(***************************************************************************)
(* The title object.                                                       *)
(***************************************************************************)
\* parts.get(key) or ""
PartOrEmpty(parts, key) ==
    LET v == Get(parts, key) IN IF Truthy(v) THEN v.s ELSE <<>>
build_title_object(parts_of_the_title, title_is_valid, content) ==
    LET combined ==
            IF parts_of_the_title # None
            THEN LET id0 == PartOrEmpty(parts_of_the_title, "id")
                     ticket_id == IF id0 # <<>> THEN <<"(">> \o id0 \o <<")">> ELSE id0
                 IN PyStr(PartOrEmpty(parts_of_the_title, "freq") \o ticket_id
                          \o PartOrEmpty(parts_of_the_title, "ticket_emoji")
                          \o PartOrEmpty(parts_of_the_title, "text"))
            ELSE None
        to_replace == /\ combined # None
                      /\ title_is_valid
                      /\ content.k = "str"
                      /\ content # combined
    IN [is_complete |-> title_is_valid,
        combined |-> IF combined # None THEN combined ELSE Absent,
        to_replace |-> to_replace,
        parts |-> parts_of_the_title,
        duplicated_id |-> Absent,
        sequential_id |-> Absent]

(***************************************************************************)
(* The overdue classifier.  now is a datetime, tz a utc offset in minutes. *)
(***************************************************************************)
\* what except (ValueError, TypeError) catches
Caught(r) == IsRaise(r) /\ r.exc \in {"ValueError", "TypeError"}
is_task_overdue(due_dict, now, tz) ==
    IF due_dict = None \/ IsEmptyDict(due_dict) \/ ~Truthy(Get(due_dict, "date"))
    THEN PyBool(FALSE)
    ELSE LET due_date == due_dict["date"]
             today == DateOf(now)
         IN \* "T" in due_date is a TypeError unless due_date is a str
            IF due_date.k # "str" THEN None
            ELSE LET parsed == fromisoformat(due_date) IN
                 IF Contains(<<"T">>, due_date.s)
                 THEN IF Caught(parsed) THEN None
                      ELSE LET due_dt == IF ~parsed.aware THEN ReplaceTz(parsed, tz)
                                         ELSE parsed
                               r == DtLess(due_dt, now)
                           IN IF Caught(r) THEN None ELSE r
                 ELSE IF Caught(parsed) THEN None
                      ELSE PyBool(DateLess(DateOf(ReplaceTz(parsed, tz)), today))

(***************************************************************************)
(* The state.                                                              *)
(***************************************************************************)
VARIABLES
    utc_now,            \* the instant of the run, as an aware datetime in UTC
    sys_off,            \* the utc offset, in minutes, of the system's local zone
    TIME_ZONE,          \* the TIME_ZONE setting: unset, invalid, or a zone's offset
    tasks,              \* the batch handed to categorize_tasks
    now_arg,            \* categorize_tasks' now argument: None, or a datetime
    idx,                \* how many tasks the loop of categorize_tasks has assembled
    overdue_tasks,      \* categorize_tasks' overdue_tasks list
    not_overdue_tasks,  \* categorize_tasks' not_overdue_tasks list
    pc,                 \* where the run is
    call,               \* a direct call of one function: its name and arguments
    ret,                \* what the finished call, or the raising run, produced
    api,                \* the calls the Todoist client has received, in order
    server,             \* the pending tasks Todoist holds
    env,                \* the environment: TODOIST_SECRET_ID, OUTPUT_JSON_FILE
    cli                 \* run_service.main: integration calls made, whether one
                        \* raised, the file written, the exit code

vars == <<utc_now, sys_off, TIME_ZONE, tasks, now_arg, idx, overdue_tasks,
          not_overdue_tasks, pc, call, ret, api, server, env, cli>>

\* no call finished yet
Pending == [k |-> "pending"]
\* no Todoist account, no environment and no command line in play
Offline ==
    /\ server = <<>>
    /\ env = [TODOIST_SECRET_ID |-> None, OUTPUT_JSON_FILE |-> None]
    /\ cli = [runs |-> 0, raised |-> FALSE, file |-> None, exit |-> None]

(***************************************************************************)
(* The clock and the timezone.                                             *)
(***************************************************************************)
\* the datetime that is total minutes after the ordinal's epoch in UTC, shown
\* at utc offset off
FromUtcMinutes(total, ss, aware, off) ==
    LET local == total + off
        r == local % 1440
        ymd == Ord2Ymd(local \div 1440)
    IN DateTime(ymd.y, ymd.m, ymd.d, r \div 60, r % 60, ss, aware,
                IF aware THEN off ELSE 0)
\* datetime.now(): the naive local time of the system
PyNow == FromUtcMinutes(UtcMinutes(utc_now), utc_now.ss, FALSE, sys_off)
\* datetime.now(tz)
PyNowIn(tz) == FromUtcMinutes(UtcMinutes(utc_now), utc_now.ss, TRUE, tz)
\* the utc offset of the zone get_timezone() returns: the configured zone, else
\* (TIME_ZONE unset or naming no zone) the system's local zone
get_timezone ==
    IF TIME_ZONE.k = "zone" THEN TIME_ZONE.off ELSE sys_off

(***************************************************************************)
(* categorize_tasks: one turn of its loop assembles one task.              *)
(***************************************************************************)
DefaultMinTitleLen == 3
\* the body of the loop for one task: the record and its bucket, or the
\* exception that leaves categorize_tasks
Assembled(task, due_dict, freq_list, v, now, tz) ==
    LET is_valid ==
            /\ v.parts # None
            /\ Len(freq_list) = 1
            /\ Get(v.parts, "freq") # None
            /\ PyStr(freq_list[1].emoji) = Get(v.parts, "freq")
        task_data ==
            [id |-> task.id,
             content |-> task.content,
             due |-> due_dict,
             labels |-> task.labels,
             title |-> build_title_object(v.parts, v.ok, task.content),
             frequency_labels |->
                 [list |-> freq_list,
                  count |-> Len(freq_list),
                  frequency_matches_label |-> is_valid,
                  has_non_frequency |-> _has_non_frequency_label(task.labels)]]
        overdue ==
            IF due_dict # None /\ Truthy(Get(due_dict, "date"))
            THEN is_task_overdue(due_dict, now, tz)
            ELSE PyBool(FALSE)
    IN [k |-> "assembled", task_data |-> task_data,
        overdue |-> (overdue # None /\ overdue.b)]
\* an exception of _process_due_obj leaves the loop before anything else runs
AfterDue(task, due_dict, now, tz) ==
    IF IsRaise(due_dict) THEN due_dict
    ELSE Assembled(task, due_dict, _detect_frequencies(task.labels),
                   validate_ticket_name(task.content, DefaultMinTitleLen), now, tz)
\* a variant whose due dictionary is carried over from the task before
CategorizeOne_due_carried_over(task, now, tz) ==
    AfterDue(task, _process_due_obj(IF idx > 0 THEN tasks[idx].due ELSE task.due), now, tz)
CategorizeOne(task, now, tz) == AfterDue(task, _process_due_obj(task.due), now, tz)

\* now = datetime.now() if now is None else now
CategorizeNow == IF now_arg = None THEN PyNow ELSE now_arg

CategorizeTask ==
    /\ pc = "categorize"
    /\ idx < Len(tasks)
    /\ \E r \in {CategorizeOne(tasks[idx + 1], CategorizeNow, get_timezone)} :
       IF IsRaise(r)
       THEN /\ pc' = "raised"
            /\ ret' = r
            /\ UNCHANGED <<idx, overdue_tasks, not_overdue_tasks>>
       ELSE /\ idx' = idx + 1
            /\ overdue_tasks' = IF r.overdue THEN Append(overdue_tasks, r.task_data)
                                ELSE overdue_tasks
            /\ not_overdue_tasks' = IF r.overdue THEN not_overdue_tasks
                                    ELSE Append(not_overdue_tasks, r.task_data)
            /\ UNCHANGED <<pc, ret>>
    /\ UNCHANGED <<utc_now, sys_off, TIME_ZONE, tasks, now_arg, call, api,
                   server, env, cli>>

CategorizeReturn ==
    /\ pc = "categorize"
    /\ idx = Len(tasks)
    /\ pc' = "done"
    /\ UNCHANGED <<utc_now, sys_off, TIME_ZONE, tasks, now_arg, idx, overdue_tasks,
                   not_overdue_tasks, call, ret, api,
                   server, env, cli>>

(***************************************************************************)
(* Direct calls of the pure functions.                                     *)
(***************************************************************************)
Call_infer_next_recurrence ==
    /\ pc = "call"
    /\ call.fn = "infer_next_recurrence"
    /\ ret' = infer_next_recurrence(call.due)
    /\ pc' = "returned"
    /\ UNCHANGED <<utc_now, sys_off, TIME_ZONE, tasks, now_arg, idx, overdue_tasks,
                   not_overdue_tasks, call, api,
                   server, env, cli>>

Call_process_due_obj ==
    /\ pc = "call"
    /\ call.fn = "_process_due_obj"
    /\ ret' = _process_due_obj(call.due)
    /\ pc' = "returned"
    /\ UNCHANGED <<utc_now, sys_off, TIME_ZONE, tasks, now_arg, idx, overdue_tasks,
                   not_overdue_tasks, call, api,
                   server, env, cli>>

Call_validate_ticket_name ==
    /\ pc = "call"
    /\ call.fn = "validate_ticket_name"
    /\ ret' = validate_ticket_name(call.s, call.min_title_len)
    /\ pc' = "returned"
    /\ UNCHANGED <<utc_now, sys_off, TIME_ZONE, tasks, now_arg, idx, overdue_tasks,
                   not_overdue_tasks, call, api,
                   server, env, cli>>

Call_is_task_overdue ==
    /\ pc = "call"
    /\ call.fn = "is_task_overdue"
    /\ ret' = is_task_overdue(call.due, call.now, call.tz)
    /\ pc' = "returned"
    /\ UNCHANGED <<utc_now, sys_off, TIME_ZONE, tasks, now_arg, idx, overdue_tasks,
                   not_overdue_tasks, call, api,
                   server, env, cli>>

(***************************************************************************)
(* The inputs.                                                             *)
(***************************************************************************)
Ymd(y, m, d) == [y |-> y, m |-> m, d |-> d]
\* DateSpan consecutive days from Monday 2025-11-17, so every weekday occurs
SpanDates == {Ord2Ymd(Ymd2Ord(2025, 11, 17) + i) : i \in 0..(DateSpan - 1)}
\* ends of months and of the year, and a leap day
SpecialDates == {Ymd(2024, 1, 31), Ymd(2025, 1, 31), Ymd(2025, 12, 31), Ymd(2024, 2, 29)}
DateStrings == {DateIso(dd) : dd \in SpanDates \cup SpecialDates}
DateTimeStrings ==
    { DateIso(Ymd(2025, 11, 21)) \o <<"T","1","0",":","0","0",":","0","0">>,
      DateIso(Ymd(2025, 11, 23)) \o <<"T","2","3",":","3","0",":","0","0","-","0","3",":","0","0">> }
NotADate == <<"n","o","t","-","a","-","d","a","t","e">>
MalformedDates == {NotADate, DateIso(Ymd(2025, 2, 30)), <<"T","o","m","o","r","r","o","w">>}
\* what the date key of a raw due dict may hold
DateValues ==
    {Absent, None, PyStr(<<>>), PyInt(5)}
        \cup {PyStr(x) : x \in DateStrings \cup DateTimeStrings \cup MalformedDates}

WeekdayAbbreviations == {p[1] : p \in weekday_map}
WeekdayPhrases ==
    {EveryPrefix \o wd : wd \in WeekdayAbbreviations}
        \cup {CadaPrefix \o wd : wd \in WeekdayAbbreviations}
CataloguePhrases == {CadaMes, EveryMonth, CadaDia, EveryDay, CadaSemana, EveryWeek}
\* the catalogue in other letter cases
CasedPhrases ==
    { <<"E","v","e","r","y"," ","M","o","n","t","h">>,
      <<"C","A","D","A"," ","D","I_acute","A">>,
      <<"E","V","E","R","Y"," ","W","E","E","K">>,
      <<"E","v","e","r","y"," ","S","a","t">> }
\* phrases of no pattern
UnmatchedPhrases ==
    { <<"c","a","d","a"," ","q","u","i","n","c","e","n","a">>,
      <<"e","v","e","r","y">>,
      <<"t","o","m","o","r","r","o","w">> }
\* what the string key of a raw due dict may hold
PhraseValues ==
    {Absent, None, PyStr(<<>>)}
        \cup {PyStr(x) : x \in WeekdayPhrases \cup CataloguePhrases \cup CasedPhrases
                                  \cup UnmatchedPhrases}
ShortcutString == DateIso(Ymd(2025, 12, 1))
\* what the next_recurring_date key may hold
ShortcutValues == {Absent, None, PyStr(<<>>), PyStr(ShortcutString)}

RawDue(date, string, recurring, is_recurring, shortcut) ==
    [date |-> date, string |-> string, recurring |-> recurring,
     is_recurring |-> is_recurring, next_recurring_date |-> shortcut,
     next_recurrence_date |-> Absent, frequency |-> Absent]
\* the due dicts handed to infer_next_recurrence, which reads no flag
InferDues ==
    {RawDue(d, p, Absent, Absent, sc) :
        d \in DateValues, p \in PhraseValues, sc \in ShortcutValues}
\* the to_dict() results handed to _process_due_obj
ProcessPhraseValues ==
    {Absent, None, PyStr(<<>>), PyStr(EveryPrefix \o <<"s","a","t">>), PyStr(CadaMes),
     PyStr(EveryDay), PyStr(<<"E","v","e","r","y"," ","M","o","n","t","h">>),
     PyStr(<<"c","a","d","a"," ","q","u","i","n","c","e","n","a">>)}
ProcessDues ==
    {RawDue(d, p, r, ir, sc) :
        d \in DateValues, p \in ProcessPhraseValues,
        r \in {Absent, PyBool(TRUE), PyBool(FALSE)}, ir \in {Absent, PyBool(TRUE)},
        sc \in ShortcutValues}
DueCalls ==
    {[fn |-> "infer_next_recurrence", due |-> d] : d \in InferDues}
        \cup {[fn |-> "_process_due_obj", due |-> d] : d \in ProcessDues \cup {None}}

\* the state of a specification that runs no batch
NoBatch ==
    /\ utc_now = DateTime(2025, 11, 22, 12, 0, 0, TRUE, 0)
    /\ sys_off = 0
    /\ TIME_ZONE = [k |-> "unset"]
    /\ tasks = <<>>
    /\ now_arg = None
    /\ idx = 0
    /\ overdue_tasks = <<>>
    /\ not_overdue_tasks = <<>>
    /\ api = <<>>
    /\ Offline

InitDue ==
    /\ NoBatch
    /\ pc = "call"
    /\ call \in DueCalls
    /\ ret = Pending
NextDue == Call_infer_next_recurrence \/ Call_process_due_obj
\* the predictor and the normalizer, called on every sampled due dict
SpecDue == InitDue /\ [][NextDue]_vars

(***************************************************************************)
(* A run of categorize_tasks over a batch, and direct calls of the overdue *)
(* classifier.                                                             *)
(***************************************************************************)
\* the instants sampled for the run: 01:00 and 12:00 UTC of 2025-11-22, so that
\* a zone three hours behind UTC is on the previous day at the first
RunInstants ==
    {DateTime(2025, 11, 22, 1, 0, 0, TRUE, 0), DateTime(2025, 11, 22, 12, 0, 0, TRUE, 0)}
\* the utc offsets, in minutes, of the zones sampled
ZoneOffsets == {0, -180}
TimeZoneSettings ==
    {[k |-> "unset"], [k |-> "invalid"]} \cup {[k |-> "zone", off |-> o] : o \in ZoneOffsets}

NaiveLateEvening ==
    DateIso(Ymd(2025, 11, 21)) \o <<"T","2","3",":","4","5",":","0","0">>
AwareAfterMidnight ==
    DateIso(Ymd(2025, 11, 22)) \o <<"T","0","0",":","3","0",":","0","0","+","0","0",":","0","0">>
Tomorrow == <<"T","o","m","o","r","r","o","w">>
\* the due attribute of the sampled tasks: None, or what to_dict() returns
TaskDues ==
    { None,
      RawDue(None, PyStr(<<>>), PyBool(FALSE), Absent, Absent),
      RawDue(PyStr(DateIso(Ymd(2025, 11, 21))), PyStr(Tomorrow), PyBool(FALSE), Absent, Absent),
      RawDue(PyStr(DateIso(Ymd(2025, 11, 22))), PyStr(Tomorrow), PyBool(FALSE), Absent, Absent),
      RawDue(PyStr(NaiveLateEvening), PyStr(Tomorrow), PyBool(FALSE), Absent, Absent),
      RawDue(PyStr(AwareAfterMidnight), PyStr(Tomorrow), PyBool(FALSE), Absent, Absent),
      RawDue(PyStr(NotADate), PyStr(Tomorrow), PyBool(FALSE), Absent, Absent),
      RawDue(PyStr(Tomorrow), PyStr(Tomorrow), PyBool(FALSE), Absent, Absent),
      RawDue(PyStr(DateIso(Ymd(2025, 11, 21))), PyStr(EveryDay), PyBool(TRUE), Absent, Absent),
      RawDue(PyStr(NotADate), None, Absent, PyBool(TRUE), Absent) }
\* a title of the full grammar
StopPhoneApps ==
    <<"GREEN_CIRCLE","(","B","0","1","-","1","6","-","0","0",")","PHONE_OFF",
      "S","t","o","p"," ","a","p","p","s">>
TaskContents == {PyStr(StopPhoneApps)}
\* a task of the batch: the attributes categorize_tasks reads
Task(id, content, labels, due) ==
    [id |-> id, content |-> content, labels |-> labels, due |-> due]
TaskShapes ==
    {Task(None, c, <<label(DAILY)>>, d) : c \in TaskContents, d \in TaskDues}
\* the batches of at most MaxTasks tasks, the id of a task being its position
TaskBatches ==
    UNION {{[i \in 1..n |-> [b[i] EXCEPT !.id = PyStr(<<DigitChars[i + 1]>>)]] :
              b \in [1..n -> TaskShapes]} : n \in 0..MaxTasks}

\* what the date key holds in the direct calls of the classifier
OverdueDates ==
    {Absent, None, PyStr(<<>>), PyInt(5)}
        \cup {PyStr(x) : x \in {DateIso(Ymd(2025, 11, 20)), DateIso(Ymd(2025, 11, 21)),
                                DateIso(Ymd(2025, 11, 22)), DateIso(Ymd(2025, 11, 23)),
                                NaiveLateEvening, AwareAfterMidnight}
                               \cup DateTimeStrings \cup MalformedDates}
OverdueDues ==
    {None, EmptyDict}
        \cup {RawDue(d, PyStr(Tomorrow), PyBool(FALSE), Absent, Absent) : d \in OverdueDates}

InitRun ==
    /\ utc_now \in RunInstants
    /\ sys_off \in ZoneOffsets
    /\ TIME_ZONE \in TimeZoneSettings
    /\ tasks \in TaskBatches
    /\ now_arg \in {None, PyNowIn(get_timezone)}
    /\ idx = 0
    /\ overdue_tasks = <<>>
    /\ not_overdue_tasks = <<>>
    /\ api = <<>>
    /\ Offline
    /\ pc = "categorize"
    /\ call = None
    /\ ret = Pending
InitOverdueCall ==
    /\ utc_now \in RunInstants
    /\ sys_off \in ZoneOffsets
    /\ TIME_ZONE = [k |-> "unset"]
    /\ tasks = <<>>
    /\ now_arg = None
    /\ idx = 0
    /\ overdue_tasks = <<>>
    /\ not_overdue_tasks = <<>>
    /\ api = <<>>
    /\ Offline
    /\ pc = "call"
    /\ call \in {[fn |-> "is_task_overdue", due |-> d, now |-> n, tz |-> t] :
                    d \in OverdueDues,
                    n \in {PyNow} \cup {PyNowIn(o) : o \in ZoneOffsets},
                    t \in ZoneOffsets}
    /\ ret = Pending
Init == InitRun \/ InitOverdueCall
Next == CategorizeTask \/ CategorizeReturn \/ Call_is_task_overdue
Spec == Init /\ [][Next]_vars

(***************************************************************************)
(* Direct calls of validate_ticket_name on titles put together from the    *)
(* pieces of the grammar, well-formed and not.                             *)
(***************************************************************************)
Blanks == {<<>>, <<" ">>}
FreqPieces == {<<"GREEN_CIRCLE">>, <<"GREEN_CIRCLE", "VS16">>, <<>>}
IdPieces ==
    { <<"(","B","0","1","-","1","6","-","0","0",")">>,
      <<"(","b","0","1","-","1","6","-","0","0",")">>,
      <<"(","B","1","-","1","6","-","0","0",")">>,
      <<"B","0","1","-","1","6","-","0","0">> }
EmojiPieces == {<<"PHONE_OFF">>, <<"a">>, <<>>}
TitlePieces ==
    { <<"a","b","c">>, <<"a","b">>, <<"a">>, <<>>, <<"(">>,
      <<"S","t","o","p"," ","a","p","p","s">>,
      <<"RED_CIRCLE","a","b","c">>,
      <<"*","a","*","b">>,
      <<"VS16","a","b","c","ZWSP">> }
TitleInputs ==
    {PyStr(l \o f \o s1 \o i \o e \o s3 \o t) :
        l \in Blanks, f \in FreqPieces, s1 \in Blanks, i \in IdPieces,
        e \in EmojiPieces, s3 \in Blanks, t \in TitlePieces}
        \cup {None, PyInt(5)}
TitleCalls ==
    {[fn |-> "validate_ticket_name", s |-> v, min_title_len |-> n] :
        v \in TitleInputs, n \in 0..MaxMinTitleLen}
InitTitle ==
    /\ NoBatch
    /\ pc = "call"
    /\ call \in TitleCalls
    /\ ret = Pending
NextTitle == Call_validate_ticket_name
SpecTitle == InitTitle /\ [][NextTitle]_vars

(***************************************************************************)
(* Claims about the recurrence predictor and the normalizer (SpecDue).     *)
(***************************************************************************)
\* the raw flags make the due info recurring
IsRecurringRaw(due) ==
    Truthy(Get(due, "recurring")) \/ Truthy(Get(due, "is_recurring"))
\* the raw structure carries a shortcut next-date
HasShortcut(due) ==
    due.next_recurring_date.k = "str" /\ due.next_recurring_date.s # <<>>
NoShortcut(due) == due.next_recurring_date \in {Absent, None, PyStr(<<>>)}
\* the date value is a string that parses
DateParses(v) == v.k = "str" /\ ~IsRaise(fromisoformat(v))
\* the phrase matches a pattern of the catalogue
MatchesCatalogue(p) ==
    /\ p.k = "str"
    /\ LET l == Lower(p.s) IN
       \/ \E c \in CataloguePhrases : Contains(c, l)
       \/ /\ StartsWith(l, EveryPrefix) \/ StartsWith(l, CadaPrefix)
          /\ Len(Split(l)) >= 2
          /\ Prefix(Split(l)[2], 3) \in WeekdayAbbreviations
\* a finished call that predicted for a recurring due info
Predicting ==
    /\ pc = "returned"
    /\ call.fn \in {"infer_next_recurrence", "_process_due_obj"}
    /\ call.due # None
    /\ call.fn = "_process_due_obj" => IsRecurringRaw(call.due)
\* what it predicted
Predicted ==
    IF IsRaise(ret) \/ call.fn = "infer_next_recurrence" THEN ret
    ELSE ret.next_recurrence_date
\* the ordinal of the day the due date string of the call names
DueOrdinal ==
    LET dt == fromisoformat(call.due.date) IN Ymd2Ord(dt.y, dt.m, dt.d)
IsoOfOrdinal(o) == PyStr(DateIso(Ord2Ymd(o)))

\* C4: infer_next_recurrence never raises, whatever the due dictionary holds
\* (absent, null, malformed or well-formed date, phrase and shortcut); without
\* a shortcut, an unparseable date or a missing or unmatched phrase yields None.
C4_InferNeverRaises ==
    (pc = "returned" /\ call.fn = "infer_next_recurrence") =>
        /\ ~IsRaise(ret)
        /\ (NoShortcut(call.due)
              /\ (~DateParses(call.due.date) \/ ~MatchesCatalogue(call.due.string)))
           => ret = None

\* C5: when the raw structure of a recurring due info carries a shortcut
\* next-date, the prediction is exactly that shortcut, whatever the phrase and
\* the due date are.
C5_ShortcutWins ==
    (Predicting /\ HasShortcut(call.due)) =>
        Predicted = call.due.next_recurring_date
\* the shortcut is returned for a null phrase and a date that does not parse
C5_Witness ==
    /\ Predicting /\ call.fn = "_process_due_obj"
    /\ call.due.date = PyStr(NotADate) /\ call.due.string = None
    /\ HasShortcut(call.due)
    /\ ret.next_recurrence_date = PyStr(ShortcutString)

\* C6: for a parseable due date and a phrase "every <wd>" or "cada <wd>" with a
\* recognized abbreviation, the prediction is the first date strictly after the
\* due date that falls on that weekday: 1 to 7 days later, and 7 days later when
\* the due date itself falls on it.
C6_NextWeekday ==
    (/\ Predicting /\ NoShortcut(call.due) /\ DateParses(call.due.date)
     /\ call.due.string.k = "str" /\ call.due.string.s \in WeekdayPhrases) =>
        LET wd == weekday_map_get(Prefix(Split(call.due.string.s)[2], 3)).n
            o == DueOrdinal
        IN \E n \in 1..7 :
              /\ Predicted = IsoOfOrdinal(o + n)
              /\ (o + n + 6) % 7 = wd
              /\ \A j \in 1..(n - 1) : (o + j + 6) % 7 # wd
              /\ ((o + 6) % 7 = wd) => n = 7
\* Saturday 2025-11-22 with "every sat" gives 2025-11-29
C6_Witness ==
    /\ Predicting /\ NoShortcut(call.due)
    /\ call.due.date = PyStr(DateIso(Ymd(2025, 11, 22)))
    /\ call.due.string = PyStr(EveryPrefix \o <<"s","a","t">>)
    /\ Predicted = PyStr(DateIso(Ymd(2025, 11, 29)))

\* the call of the example: due date 2025-11-21, phrase "every sat", no shortcut
C7_Example ==
    /\ Predicting /\ NoShortcut(call.due)
    /\ call.due.date = PyStr(DateIso(Ymd(2025, 11, 21)))
    /\ call.due.string = PyStr(EveryPrefix \o <<"s","a","t">>)
\* C7 as stated: due date 2025-11-21 with "every sat" predicts 2025-11-28.
C7_Original == C7_Example => Predicted = PyStr(DateIso(Ymd(2025, 11, 28)))
\* C7 as amended: due date 2025-11-21, a Friday, with "every sat" predicts the
\* next day, 2025-11-22.
C7_Amended ==
    C7_Example =>
        /\ Predicted = PyStr(DateIso(Ymd(2025, 11, 22)))
        /\ Weekday(fromisoformat(call.due.date)) = 4
C7_Witness == C7_Example /\ call.fn = "infer_next_recurrence"

\* one calendar month after the day ymd: the same day of the next month, or
\* that month's last day when it has no such day
MonthLater(o) ==
    LET a == Ord2Ymd(o)
        y2 == IF a.m = 12 THEN a.y + 1 ELSE a.y
        m2 == IF a.m = 12 THEN 1 ELSE a.m + 1
        d2 == CHOOSE dd \in 1..31 :
                  /\ dd <= a.d /\ dd <= DaysInMonth(y2, m2)
                  /\ \A d3 \in 1..31 : (d3 <= a.d /\ d3 <= DaysInMonth(y2, m2)) => d3 <= dd
    IN PyStr(DateIso(Ymd(y2, m2, d2)))
\* C8: for a parseable due date without a shortcut, a monthly phrase in any
\* letter case predicts the due date plus one calendar month, a daily phrase
\* plus 1 day, a weekly phrase plus 7 days; 2025-11-21 with "every month"
\* predicts 2025-12-21.
C8_CataloguePhrases ==
    (/\ Predicting /\ NoShortcut(call.due) /\ DateParses(call.due.date)
     /\ call.due.string.k = "str") =>
        LET l == Lower(call.due.string.s) IN
        /\ l \in {CadaMes, EveryMonth} => Predicted = MonthLater(DueOrdinal)
        /\ l \in {CadaDia, EveryDay} => Predicted = IsoOfOrdinal(DueOrdinal + 1)
        /\ l \in {CadaSemana, EveryWeek} => Predicted = IsoOfOrdinal(DueOrdinal + 7)
        /\ (l = EveryMonth /\ call.due.date = PyStr(DateIso(Ymd(2025, 11, 21))))
           => Predicted = PyStr(DateIso(Ymd(2025, 12, 21)))
\* "Every Month" from 2024-01-31 gives the leap day 2024-02-29
C8_Witness ==
    /\ Predicting /\ NoShortcut(call.due)
    /\ call.due.date = PyStr(DateIso(Ymd(2024, 1, 31)))
    /\ call.due.string = PyStr(<<"E","v","e","r","y"," ","M","o","n","t","h">>)
    /\ Predicted = PyStr(DateIso(Ymd(2024, 2, 29)))

\* a finished _process_due_obj that produced a DueInfo
ProducedDueInfo ==
    /\ pc = "returned" /\ call.fn = "_process_due_obj"
    /\ ret # None /\ ~IsRaise(ret)
\* the raw dicts that differ from due in the recurrence flags at most
SameButFlags(due) ==
    {[due EXCEPT !.recurring = r, !.is_recurring = ir] :
        r \in {Absent, PyBool(TRUE), PyBool(FALSE)}, ir \in {Absent, PyBool(TRUE)}}
\* the raw dicts with the date and the phrase of due, whatever else they hold
SameDateAndPhrase(due) ==
    {[d2 EXCEPT !.next_recurring_date = sc] : d2 \in SameButFlags(due), sc \in ShortcutValues}
\* C9 as stated: a next_recurrence_date value is present only if the due info is
\* recurring and its phrase matched a catalogue pattern, and the value is set by
\* the date and the phrase alone; a non-recurring due info carries none.
C9_Original ==
    ProducedDueInfo =>
        /\ Truthy(Get(ret, "next_recurrence_date")) =>
              /\ IsRecurringRaw(call.due) /\ MatchesCatalogue(call.due.string)
              /\ \A d2 \in SameDateAndPhrase(call.due) :
                    IsRecurringRaw(d2) =>
                        _process_due_obj(d2).next_recurrence_date = ret.next_recurrence_date
        /\ ~IsRecurringRaw(call.due) => ~HasKey(ret, "next_recurrence_date")
\* C9 as amended: a next_recurrence_date value is present only if the due info
\* is recurring and either the raw structure carries a shortcut next-date, which
\* is then the value, or the date parsed and the phrase matched a catalogue
\* pattern; the value is set by the shortcut, the date and the phrase alone; a
\* non-recurring due info carries no next_recurrence_date.
C9_Amended ==
    ProducedDueInfo =>
        /\ Truthy(Get(ret, "next_recurrence_date")) =>
              /\ IsRecurringRaw(call.due)
              /\ \/ /\ Truthy(Get(call.due, "next_recurring_date"))
                    /\ ret.next_recurrence_date = call.due.next_recurring_date
                 \/ /\ NoShortcut(call.due)
                    /\ DateParses(call.due.date) /\ MatchesCatalogue(call.due.string)
        /\ IsRecurringRaw(call.due) =>
              \A d2 \in SameButFlags(call.due) :
                  IsRecurringRaw(d2) =>
                      _process_due_obj(d2).next_recurrence_date = ret.next_recurrence_date
        /\ ~IsRecurringRaw(call.due) => ~HasKey(ret, "next_recurrence_date")
\* recurring by the alternate flag only, "cada mes" from 2025-11-21: the value
\* is 2025-12-21 and the phrase moved to the frequency key
C9_Witness ==
    /\ ProducedDueInfo
    /\ call.due.recurring = PyBool(FALSE) /\ call.due.is_recurring = PyBool(TRUE)
    /\ NoShortcut(call.due)
    /\ call.due.date = PyStr(DateIso(Ymd(2025, 11, 21)))
    /\ call.due.string = PyStr(CadaMes)
    /\ ret.next_recurrence_date = PyStr(DateIso(Ymd(2025, 12, 21)))
    /\ ret.frequency = PyStr(CadaMes) /\ ~HasKey(ret, "string")

(***************************************************************************)
(* Claims about the overdue classifier and categorize_tasks (Spec).        *)
(***************************************************************************)
\* the task at position i of the batch is in the bucket
InBucket(bucket, i) == \E j \in 1..Len(bucket) : bucket[j].id = tasks[i].id
\* a direct call of the classifier has returned
ClassifierReturned == pc = "returned" /\ call.fn = "is_task_overdue"
\* the due value has a time component and parses
TimedDue(due) ==
    /\ due # None /\ due.date.k = "str"
    /\ Contains(<<"T">>, due.date.s) /\ ~IsRaise(fromisoformat(due.date))
\* the due value is a date-only string that parses
DateOnlyDue(due) ==
    /\ due # None /\ due.date.k = "str"
    /\ ~Contains(<<"T">>, due.date.s) /\ ~IsRaise(fromisoformat(due.date))
\* the due info is absent or carries no date
NoDueDate(due) == due = None \/ ~Truthy(Get(due, "date"))
\* a date is present but cannot be parsed
UnparseableDue(due) ==
    /\ due # None /\ Truthy(Get(due, "date"))
    /\ due.date.k # "str" \/ IsRaise(fromisoformat(due.date))
\* the due timestamp, with tz attached when it carries no zone, is strictly
\* earlier than the instant of the run
EarlierThanRun(due, tz) ==
    DtLess(IF fromisoformat(due.date).aware THEN fromisoformat(due.date)
           ELSE ReplaceTz(fromisoformat(due.date), tz),
           utc_now).b

\* C1: for a due value with a time component that parses, is_task_overdue is
\* true iff the timestamp, with the supplied timezone attached when it has
\* none, is strictly earlier than the reference instant, and categorize_tasks
\* puts the task in the overdue bucket exactly then, whatever clock it uses.
C1_TimedDueOverdue ==
    /\ (ClassifierReturned /\ TimedDue(call.due)) =>
           ret = PyBool(EarlierThanRun(call.due, call.tz))
    /\ pc \in {"categorize", "done", "raised"} =>
           \A i \in 1..idx :
               TimedDue(tasks[i].due) =>
                   (InBucket(overdue_tasks, i) <=> EarlierThanRun(tasks[i].due, get_timezone))

\* C2: for a date-only due value, is_task_overdue(due, now, tz) is true iff the
\* due date is strictly earlier than the date of now in the timezone tz; a due
\* date equal to that date is not overdue.
C2_DateOnlyDueOverdue ==
    (ClassifierReturned /\ DateOnlyDue(call.due)) =>
        ret = PyBool(DateLess(DateOf(fromisoformat(call.due.date)),
                              DateOf(PyNowIn(call.tz))))

\* C3: is_task_overdue is False when the due info is absent or has no date and
\* None when a date is present but cannot be parsed; categorize_tasks puts
\* such a task in the not-overdue bucket, never in the overdue one, and does
\* not raise.
C3_NoDateOrUnparseable ==
    /\ (ClassifierReturned /\ NoDueDate(call.due)) => ret = PyBool(FALSE)
    /\ (ClassifierReturned /\ UnparseableDue(call.due)) => ret = None
    /\ pc \in {"categorize", "done", "raised"} =>
           \A i \in 1..idx :
               (NoDueDate(tasks[i].due) \/ UnparseableDue(tasks[i].due)) =>
                   InBucket(not_overdue_tasks, i) /\ ~InBucket(overdue_tasks, i)
    /\ pc = "raised" =>
           ~(NoDueDate(tasks[idx + 1].due) \/ UnparseableDue(tasks[idx + 1].due))

(***************************************************************************)
(* Claims about the ticket-title parser (SpecTitle).                       *)
(***************************************************************************)
\* <Letter><2 digits>-<2 digits>-<2 digits>, without parentheses
IdShape(s) ==
    /\ Len(s) = 9 /\ IsAsciiUpper(s[1])
    /\ \A i \in {2, 3, 5, 6, 8, 9} : IsDigit(s[i])
    /\ s[4] = "-" /\ s[7] = "-"
\* C10: validate_ticket_name returns either (False, None) or (True, parts)
\* where parts carries freq, id, ticket_emoji and text, the id has the shape
\* <Letter>dd-dd-dd without parentheses and text is at least min_title_len
\* long; every input that is no string gives (False, None).
C10_AllOrNothing ==
    (pc = "returned" /\ call.fn = "validate_ticket_name") =>
        /\ ~IsRaise(ret)
        /\ ~ret.ok => ret = Invalid
        /\ ret.ok =>
              /\ ret.parts # None
              /\ \A f \in {"freq", "id", "ticket_emoji", "text"} : ret.parts[f].k = "str"
              /\ ret.parts.title = Absent
              /\ IdShape(ret.parts.id.s)
              /\ Len(ret.parts.text.s) >= call.min_title_len
        /\ call.s.k # "str" => ret = Invalid
\* a title of exactly the minimum length is accepted, its leading emoji moved
\* to ticket_emoji and the parentheses of its id dropped
C10_Witness ==
    /\ pc = "returned" /\ call.fn = "validate_ticket_name"
    /\ call.min_title_len = 3
    /\ ret.ok
    /\ ret.parts.ticket_emoji = PyStr(<<"PHONE_OFF", "RED_CIRCLE">>)
    /\ ret.parts.text = PyStr(<<"a","b","c">>)
    /\ ret.parts.id = PyStr(<<"B","0","1","-","1","6","-","0","0">>)

(***************************************************************************)
(* The title object of one task: categorize_tasks parses the content with  *)
(* the default minimum length and hands the result to build_title_object.  *)
(***************************************************************************)
Call_build_title_object ==
    /\ pc = "returned"
    /\ call.fn = "validate_ticket_name"
    /\ ret' = build_title_object(ret.parts, ret.ok, call.s)
    /\ pc' = "built"
    /\ UNCHANGED <<utc_now, sys_off, TIME_ZONE, tasks, now_arg, idx, overdue_tasks,
                   not_overdue_tasks, call, api,
                   server, env, cli>>

StarPieces ==
    { <<"*","RED_CIRCLE","a","b">>, <<"*","RED_CIRCLE","a","b","c">> }
ContentInputs ==
    {PyStr(l \o f \o s1 \o i \o e \o s3 \o t) :
        l \in Blanks, f \in FreqPieces, s1 \in Blanks, i \in IdPieces,
        e \in EmojiPieces, s3 \in Blanks, t \in TitlePieces \cup StarPieces}
        \cup {None, PyInt(5)}
InitTitleObject ==
    /\ NoBatch
    /\ pc = "call"
    /\ call \in {[fn |-> "validate_ticket_name", s |-> v,
                  min_title_len |-> DefaultMinTitleLen] : v \in ContentInputs}
    /\ ret = Pending
NextTitleObject == Call_validate_ticket_name \/ Call_build_title_object
SpecTitleObject == InitTitleObject /\ [][NextTitleObject]_vars

\* the title object of a content that parsed
BuiltFromParts == pc = "built" /\ ret.parts # None
\* parsing the reconstruction again, as the next run does after a rewrite
Reparsed == validate_ticket_name(ret.combined, DefaultMinTitleLen)

\* C11: the reconstruction combined that build_title_object makes of valid
\* title parts parses again as valid and yields the same freq, id,
\* ticket_emoji and text.
C11_RoundTrip ==
    BuiltFromParts => Reparsed = Valid(ret.parts)

\* C12: to_replace is true iff combined exists, combined is itself a valid
\* title, and combined differs from the content; combined is present iff the
\* title parts exist; to_replace is false whenever the parts are absent or
\* the content equals combined.
C12_ToReplace ==
    pc = "built" =>
        /\ ret.to_replace <=>
              /\ ret.combined # Absent
              /\ Reparsed.ok
              /\ call.s # ret.combined
        /\ ret.combined # Absent <=> ret.parts # None
        /\ (ret.parts = None \/ call.s = ret.combined) => ~ret.to_replace

(***************************************************************************)
(* The sequential-id validator of main.py.                                 *)
(***************************************************************************)
RECURSIVE str_split(_, _)
\* s.split(sep) for a one-character separator
str_split(s, sep) ==
    LET at == {i \in 1..Len(s) : s[i] = sep}
    IN IF at = {} THEN <<s>>
       ELSE LET i == CHOOSE i \in at : \A j \in at : i <= j
            IN <<SubSeq(s, 1, i - 1)>> \o str_split(SubSeq(s, i + 1, Len(s)), sep)

\* int(s): surrounding whitespace, one optional sign, decimal digits with
\* single underscores between them; anything else is a ValueError
int(s) ==
    LET t == Strip(s)
        signed == t # <<>> /\ t[1] \in {"+", "-"}
        body == IF signed THEN Tail(t) ELSE t
        ok == /\ body # <<>>
              /\ IsDigit(body[1]) /\ IsDigit(body[Len(body)])
              /\ \A i \in 1..Len(body) :
                    \/ IsDigit(body[i])
                    \/ body[i] = "_" /\ IsDigit(body[i - 1]) /\ IsDigit(body[i + 1])
        digits == SelectSeq(body, IsDigit)
        RECURSIVE value(_)
        value(n) == IF n = 0 THEN 0 ELSE value(n - 1) * 10 + DigitVal(digits[n])
    IN IF ~ok THEN Raise("ValueError")
       ELSE PyInt(IF signed /\ t[1] = "-" THEN 0 - value(Len(digits))
                  ELSE value(Len(digits)))

Found_only_once(required, all_ids) ==
    Cardinality({id_str \in all_ids : StartsWith(id_str, required)}) = 1
\* any(id_str.startswith(required) for id_str in all_ids)
Found(required, all_ids) ==
    \E id_str \in all_ids : StartsWith(id_str, required)

SequenceComplete_majors_only(prefix, first_num, second_num, all_ids) ==
    PyBool(\A i \in 1..(first_num - 1) :
               Found(<<prefix>> \o Pad2(i) \o <<"-">>, all_ids))
\* the two loops over the prerequisite majors and minors
SequenceComplete(prefix, first_num, second_num, all_ids) ==
    PyBool(/\ \A i \in 1..(first_num - 1) :
                 Found(<<prefix>> \o Pad2(i) \o <<"-">>, all_ids)
           /\ second_num > 1 =>
                 \A j \in 1..(second_num - 1) :
                    Found(<<prefix>> \o Pad2(first_num) \o <<"-">> \o Pad2(j)
                              \o <<"-">>, all_ids))

\* a ValueError of int() inside the try block is caught and gives False
_validate_sequential_id(ticket_id, all_ids) ==
    IF ~Truthy(ticket_id) \/ ticket_id.k # "str" THEN PyBool(FALSE)
    ELSE LET parts == str_split(ticket_id.s, "-") IN
         IF Len(parts) # 3 THEN PyBool(FALSE)
         ELSE IF parts[1] = <<>> \/ ~(IsUpper(parts[1][1]) \/ IsLowerCh(parts[1][1]))
         THEN PyBool(FALSE)
         ELSE LET first_num == int(Tail(parts[1]))
                  second_num == int(parts[2])
              IN IF IsRaise(first_num) \/ IsRaise(second_num) THEN PyBool(FALSE)
                 ELSE SequenceComplete(parts[1][1], first_num.n, second_num.n, all_ids)

Call_validate_sequential_id ==
    /\ pc = "call"
    /\ call.fn = "_validate_sequential_id"
    /\ ret' = _validate_sequential_id(call.ticket_id, call.all_ids)
    /\ pc' = "returned"
    /\ UNCHANGED <<utc_now, sys_off, TIME_ZONE, tasks, now_arg, idx, overdue_tasks,
                   not_overdue_tasks, call, api,
                   server, env, cli>>

\* the largest major and minor number of the sampled batch ids, and the
\* largest number of ids in a batch
MaxMajor == 3
MaxMinor == 2
MaxIds == 3
TicketId(prefix, major, minor, trailing) ==
    <<prefix>> \o Pad2(major) \o <<"-">> \o Pad2(minor) \o <<"-">> \o trailing
BatchIds ==
    {TicketId("C", major, minor, <<"0","0">>) :
        major \in 1..MaxMajor, minor \in 1..MaxMinor}
        \cup {TicketId("A", 1, 1, <<"0","0">>), TicketId("C", 1, 1, <<"0","7">>)}
WellFormedIds ==
    BatchIds \cup {TicketId("C", 0, 0, <<"0","0">>), TicketId("C", 2, 0, <<"0","0">>),
                   TicketId("C", 1, MaxMinor + 1, <<"9","9">>)}
MalformedIds ==
    { <<>>, <<"i","n","v","a","l","i","d">>, <<"C","0","1","-","0","1">>,
      <<"C","0","1","-","0","1","-","0","0","-","0","0">>,
      <<"0","1","-","0","1","-","0","0">>, <<"-","0","1","-","0","0">>,
      <<"C","X","X","-","0","1","-","0","0">>, <<"C","-","0","1","-","0","0">>,
      <<"C","0","1","-","X","X","-","0","0">>, <<"C","0","1","-","-","0","0">>,
      <<"C","0","1","-","0","1","-","X","X">>, <<"C","0","1","-","0","1","-">> }
SequenceCalls ==
    {[fn |-> "_validate_sequential_id", ticket_id |-> v, all_ids |-> ids] :
        v \in {PyStr(s) : s \in WellFormedIds \cup MalformedIds} \cup {None, PyInt(5)},
        ids \in {S \in SUBSET BatchIds : Cardinality(S) <= MaxIds}}
InitSequence ==
    /\ NoBatch
    /\ pc = "call"
    /\ call \in SequenceCalls
    /\ ret = Pending
NextSequence == Call_validate_sequential_id
SpecSequence == InitSequence /\ [][NextSequence]_vars

SequenceReturned == pc = "returned" /\ call.fn = "_validate_sequential_id"
\* the identifier has the shape PNN-MM-KK
WellFormed == call.ticket_id.k = "str" /\ IdShape(call.ticket_id.s)
MajorOf(s) == Num2(s, 2)
MinorOf(s) == Num2(s, 5)
\* some batch id starts with p
SomeIdStarts(p, ids) == \E b \in ids : StartsWith(b, p)
\* (a) every major before NN and (b) every minor before MM has a batch id
Prerequisites(s, ids) ==
    /\ \A i \in 1..(MajorOf(s) - 1) :
          SomeIdStarts(<<s[1]>> \o Pad2(i) \o <<"-">>, ids)
    /\ \A j \in 1..(MinorOf(s) - 1) :
          SomeIdStarts(SubSeq(s, 1, 4) \o Pad2(j), ids)

\* C14: for a well-formed identifier PNN-MM-KK, _validate_sequential_id is
\* true iff every major 1..NN-1 and every minor 1..MM-1 of major NN has a
\* batch id; the trailing segment plays no role; major 1 minor 1 is always
\* valid; within {C01-01-00, C03-01-00}, C03-01-00 is invalid and C01-01-00
\* is valid.
C14_Prerequisites ==
    (SequenceReturned /\ WellFormed) =>
        /\ ret = PyBool(Prerequisites(call.ticket_id.s, call.all_ids))
        /\ \A kk \in {<<"0","0">>, <<"0","7">>, <<"9","9">>} :
              _validate_sequential_id(
                  PyStr(SubSeq(call.ticket_id.s, 1, 7) \o kk), call.all_ids) = ret
        /\ (MajorOf(call.ticket_id.s) = 1 /\ MinorOf(call.ticket_id.s) = 1)
              => ret = PyBool(TRUE)
        /\ call.all_ids = {TicketId("C", 1, 1, <<"0","0">>),
                           TicketId("C", 3, 1, <<"0","0">>)} =>
              /\ call.ticket_id = PyStr(TicketId("C", 3, 1, <<"0","0">>))
                    => ret = PyBool(FALSE)
              /\ call.ticket_id = PyStr(TicketId("C", 1, 1, <<"0","0">>))
                    => ret = PyBool(TRUE)
\* C03-02-00 is valid against a batch holding C01-*, C02-* and C03-01-*
C14_Witness ==
    /\ SequenceReturned
    /\ call.ticket_id = PyStr(TicketId("C", 3, 2, <<"0","0">>))
    /\ call.all_ids = {TicketId("C", 1, 2, <<"0","0">>),
                       TicketId("C", 2, 1, <<"0","0">>),
                       TicketId("C", 3, 1, <<"0","0">>)}
    /\ ret = PyBool(TRUE)

\* C15: an identifier valid against a set of batch ids is valid against
\* every larger set (here: the set with any one batch id added, and the
\* set with all of them added).
C15_Monotonic ==
    (SequenceReturned /\ ret = PyBool(TRUE)) =>
        \A more \in {{b} : b \in BatchIds} \cup {BatchIds} :
            _validate_sequential_id(call.ticket_id, call.all_ids \cup more)
                = PyBool(TRUE)
\* an identifier with prerequisites, valid against exactly what it needs
C15_Witness ==
    /\ SequenceReturned
    /\ call.ticket_id = PyStr(TicketId("C", 2, 2, <<"0","0">>))
    /\ call.all_ids = {TicketId("C", 1, 1, <<"0","0">>),
                       TicketId("C", 2, 1, <<"0","0">>)}
    /\ ret = PyBool(TRUE)

\* a segment of the identifier that is no number
NonNumeric(seg) == seg = <<>> \/ \E i \in 1..Len(seg) : ~IsDigit(seg[i])
Malformed(v) ==
    \/ ~Truthy(v)
    \/ v.k # "str"
    \/ v.k = "str" /\ Truthy(v) /\
          \E parts \in {str_split(v.s, "-")} :
              \/ Len(parts) # 3
              \/ Len(parts) = 3 /\
                    \/ parts[1] = <<>>
                    \/ parts[1] # <<>> /\ ~(IsUpper(parts[1][1]) \/ IsLowerCh(parts[1][1]))
                    \/ parts[1] # <<>> /\ NonNumeric(Tail(parts[1]))
                    \/ NonNumeric(parts[2])
                    \/ NonNumeric(parts[3])
\* C16: _validate_sequential_id returns False, without raising, for every
\* malformed identifier: absent, empty or no string, not three segments, no
\* leading letter, or a non-numeric segment (major, minor or trailing).
C16_MalformedIsInvalid ==
    (SequenceReturned /\ Malformed(call.ticket_id)) => ret = PyBool(FALSE)

(***************************************************************************)
(* The integration run of main.py: after categorize_tasks, the update of   *)
(* the overdue daily tasks, then the report (split, marks, sort, issues).  *)
(***************************************************************************)
\* ord(c): the code point of a character (the quotation mark, the backslash
\* and the backtick are written as named tokens)
ord(c) ==
    LET Ascii == <<" ","!","QUOTE","#","$","%","&","'","(",")","*","+",",","-",".","/",
                   "0","1","2","3","4","5","6","7","8","9",":",";","<","=",">","?",
                   "@","A","B","C","D","E","F","G","H","I","J","K","L","M","N","O",
                   "P","Q","R","S","T","U","V","W","X","Y","Z","[","BACKSLASH","]","^","_",
                   "BACKTICK","a","b","c","d","e","f","g","h","i","j","k","l","m","n","o",
                   "p","q","r","s","t","u","v","w","x","y","z","{","|","}","~">>
        Latin1 == [A_acute |-> 193, E_acute |-> 201, I_acute |-> 205,
                   a_acute |-> 225, e_acute |-> 233, i_acute |-> 237]
    IN IF c \in DOMAIN NamedCodePoints THEN NamedCodePoints[c]
       ELSE IF c \in DOMAIN Latin1 THEN Latin1[c]
       ELSE IF c = "\t" THEN 9
       ELSE IF c = "\n" THEN 10
       ELSE 31 + CHOOSE i \in 1..Len(Ascii) : Ascii[i] = c

RECURSIVE StrLess(_, _)
\* a < b for two str values
StrLess(a, b) ==
    IF b = <<>> THEN FALSE
    ELSE IF a = <<>> THEN TRUE
    ELSE IF a[1] = b[1] THEN StrLess(Tail(a), Tail(b))
    ELSE ord(a[1]) < ord(b[1])

_task_sort_key_text_as_is(task, tz) ==
    LET due_date == IF task.due = None THEN None ELSE Get(task.due, "date")
        dt == IF Truthy(due_date) /\ due_date.k = "str"
              THEN fromisoformat(due_date) ELSE Raise("TypeError")
        parts == task.title.parts
    IN [date_key |-> IF ~Truthy(due_date) \/ IsRaise(dt) THEN Ymd(9999, 12, 31)
                     ELSE DateOf(dt),
        id_key |-> IF parts = None THEN <<>> ELSE PartOrEmpty(parts, "id"),
        text_key |-> IF parts = None THEN <<>> ELSE PartOrEmpty(parts, "text")]
\* the date of the due value whether it has a time or not, datetime.max.date()
\* when it is missing or raises ValueError or TypeError; the id and the
\* lowercased text of the title parts, "" when there is none
_task_sort_key(task, tz) ==
    LET due_date == IF task.due = None THEN None ELSE Get(task.due, "date")
        dt == IF Truthy(due_date) /\ due_date.k = "str"
              THEN fromisoformat(due_date) ELSE Raise("TypeError")
        parts == task.title.parts
    IN [date_key |-> IF ~Truthy(due_date) \/ IsRaise(dt) THEN Ymd(9999, 12, 31)
                     ELSE DateOf(dt),
        id_key |-> IF parts = None THEN <<>> ELSE PartOrEmpty(parts, "id"),
        text_key |-> IF parts = None THEN <<>> ELSE Lower(PartOrEmpty(parts, "text"))]

\* a < b for two keys, as tuples compare
KeyLess(a, b) ==
    \/ DateLess(a.date_key, b.date_key)
    \/ /\ a.date_key = b.date_key
       /\ \/ StrLess(a.id_key, b.id_key)
          \/ a.id_key = b.id_key /\ StrLess(a.text_key, b.text_key)

RECURSIVE sorted(_, _)
\* sorted(bucket, key=lambda t: _task_sort_key(t, tz)): stable, ascending
sorted(bucket, tz) ==
    IF bucket = <<>> THEN <<>>
    ELSE LET n == Len(bucket)
             before == sorted(SubSeq(bucket, 1, n - 1), tz)
             k == _task_sort_key(bucket[n], tz)
             pos == Cardinality({i \in 1..(n - 1) :
                                    ~KeyLess(k, _task_sort_key(before[i], tz))})
         IN SubSeq(before, 1, pos) \o <<bucket[n]>> \o SubSeq(before, pos + 1, n - 1)

\* a variant that files the tasks due today under the future tasks as well
_split_not_overdue_tasks_today_twice(not_overdue, tz) ==
    LET Today(t) == /\ t.due # None
                    /\ Truthy(Get(t.due, "date"))
                    /\ Get(t.due, "date").k = "str"
                    /\ ~IsRaise(fromisoformat(Get(t.due, "date")))
                    /\ DateOf(fromisoformat(Get(t.due, "date"))) = DateOf(PyNowIn(tz))
    IN [today_tasks |-> SelectSeq(not_overdue, Today),
        future_tasks |-> not_overdue]
\* a task is due today when its date parses and is the current date of tz;
\* every failure to read or parse the date files it under the future tasks
_split_not_overdue_tasks(not_overdue, tz) ==
    LET DueDate(t) == IF t.due = None THEN None ELSE Get(t.due, "date")
        Parsed(t) == IF Truthy(DueDate(t)) /\ DueDate(t).k = "str"
                     THEN fromisoformat(DueDate(t)) ELSE Raise("TypeError")
        Today(t) == /\ Truthy(DueDate(t))
                    /\ ~IsRaise(Parsed(t))
                    /\ DateOf(Parsed(t)) = DateOf(PyNowIn(tz))
        Future(t) == ~Today(t)
    IN [today_tasks |-> SelectSeq(not_overdue, Today),
        future_tasks |-> SelectSeq(not_overdue, Future)]

\* (t.get("title", {}).get("parts") or {}).get("id")
pid(t) == IF t.title.parts = None THEN None ELSE Get(t.title.parts, "id")

_mark_duplicated_ids_within_group(all_groups) ==
    [g \in 1..3 |->
        [i \in 1..Len(all_groups[g]) |->
            [all_groups[g][i] EXCEPT !.title.duplicated_id =
                PyBool(/\ Truthy(pid(all_groups[g][i]))
                       /\ Cardinality({j \in 1..Len(all_groups[g]) :
                              pid(all_groups[g][j]) = pid(all_groups[g][i])}) > 1)]]]
_mark_duplicated_ids(all_groups) ==
    LET flat == all_groups[1] \o all_groups[2] \o all_groups[3]
    IN [g \in 1..3 |->
           [i \in 1..Len(all_groups[g]) |->
               [all_groups[g][i] EXCEPT !.title.duplicated_id =
                   PyBool(/\ Truthy(pid(all_groups[g][i]))
                          /\ Cardinality({j \in 1..Len(flat) :
                                 pid(flat[j]) = pid(all_groups[g][i])}) > 1)]]]

_mark_sequential_ids(all_groups) ==
    LET flat == all_groups[1] \o all_groups[2] \o all_groups[3]
        _all_ids == {pid(flat[j]).s : j \in {j \in 1..Len(flat) : Truthy(pid(flat[j]))}}
    IN [g \in 1..3 |->
           [i \in 1..Len(all_groups[g]) |->
               [all_groups[g][i] EXCEPT !.title.sequential_id =
                   _validate_sequential_id(pid(all_groups[g][i]), _all_ids)]]]

\* the five checks of _collect_issue_tasks, in the order they are made
IssueChecks ==
    << "title is incomplete", "duplicated ticket id", "non-sequential ticket id",
       "frequency emoji does not match label", "missing non-frequency label" >>
Failing_without_label_checks(task, check) ==
    CASE check = 1 -> ~task.title.is_complete
      [] check = 2 -> Truthy(GetOr(task.title, "duplicated_id", PyBool(FALSE)))
      [] check = 3 -> task.title.sequential_id = PyBool(FALSE)
      [] OTHER -> FALSE
\* whether one check fails for the task
Failing(task, check) ==
    CASE check = 1 -> ~task.title.is_complete
      [] check = 2 -> Truthy(GetOr(task.title, "duplicated_id", PyBool(FALSE)))
      [] check = 3 -> task.title.sequential_id = PyBool(FALSE)
      [] check = 4 -> ~task.frequency_labels.frequency_matches_label
      [] check = 5 -> ~task.frequency_labels.has_non_frequency
_collect_issue_tasks(all_groups) ==
    LET flat == all_groups[1] \o all_groups[2] \o all_groups[3]
        Fails(task) == LET F(check) == Failing(task, check)
                       IN SelectSeq(<<1, 2, 3, 4, 5>>, F)
        HasIssues(task) == Fails(task) # <<>>
        with_issues == SelectSeq(flat, HasIssues)
    IN [i \in 1..Len(with_issues) |->
           [task_id |-> with_issues[i].id,
            issues |-> [n \in 1..Len(Fails(with_issues[i])) |->
                           IssueChecks[Fails(with_issues[i])[n]]]]]

\* the update_task calls in order: one for every task whose labels hold the
\* daily label and whose due.get("recurring", True) is true; raising holds
\* the positions, in overdue, at which the client raises.  A due of None
\* leaves the function with AttributeError before any call is made.
update_overdue_daily_tasks(overdue, raising) ==
    IF \E i \in 1..Len(overdue) : overdue[i].due = None THEN Raise("AttributeError")
    ELSE LET Selected(i) ==
                 /\ \E l \in 1..Len(overdue[i].labels) :
                       overdue[i].labels[l] = label(DAILY)
                 /\ Truthy(GetOr(overdue[i].due, "recurring", PyBool(TRUE)))
             selected == SelectSeq([i \in 1..Len(overdue) |-> i], Selected)
         IN [k |-> "calls",
             calls |->
                 [n \in 1..Len(selected) |->
                     [op |-> "update_task",
                      task_id |-> overdue[selected[n]].id,
                      due_date |-> DateOf(PyNow),
                      due_string |->
                          IF Truthy(Get(overdue[selected[n]].due, "string"))
                          THEN Get(overdue[selected[n]].due, "string")
                          ELSE PyStr(EveryDay),
                      raised |-> selected[n] \in raising]]]

UpdateOverdueDaily ==
    /\ pc = "done"
    /\ \E raising \in SUBSET (1..Len(overdue_tasks)) :
          \E r \in {update_overdue_daily_tasks(overdue_tasks, raising)} :
              IF IsRaise(r)
              THEN pc' = "raised" /\ ret' = r /\ api' = api
              ELSE pc' = "updated" /\ ret' = ret /\ api' = api \o r.calls
    /\ UNCHANGED <<utc_now, sys_off, TIME_ZONE, tasks, now_arg, idx, overdue_tasks,
                   not_overdue_tasks, call, server, env, cli>>

\* the buckets split and marked, then the response: the buckets sorted, the
\* issues collected from the groups as they were before sorting
OkResponse(overdue, not_overdue) ==
    LET split == _split_not_overdue_tasks(not_overdue, get_timezone)
        groups == _mark_sequential_ids(_mark_duplicated_ids(
                      <<overdue, split.today_tasks, split.future_tasks>>))
    IN [status_code |-> 200,
        content |-> [status |-> "ok",
                     overdue_tasks |-> sorted(groups[1], get_timezone),
                     today_tasks |-> sorted(groups[2], get_timezone),
                     future_tasks |-> sorted(groups[3], get_timezone),
                     issue_tasks |-> _collect_issue_tasks(groups)]]
Report ==
    /\ pc = "updated"
    /\ ret' = OkResponse(overdue_tasks, not_overdue_tasks)
    /\ pc' = "responded"
    /\ UNCHANGED <<utc_now, sys_off, TIME_ZONE, tasks, now_arg, idx, overdue_tasks,
                   not_overdue_tasks, call, api,
                   server, env, cli>>

\* the tasks of the sampled integration runs
Home == <<"h","o","m","e">>
Title(freq, id, text) ==
    PyStr(freq \o <<"(">> \o id \o <<")", "PHONE_OFF">> \o text)
DueOn(day, string, recurring, is_recurring) ==
    RawDue(PyStr(DateIso(Ymd(2025, 11, day))), string, recurring, is_recurring, Absent)
RunTaskShapes ==
    { Task(None, Title(<<"GREEN_CIRCLE">>, TicketId("C", 1, 1, <<"0","0">>), <<"a","b","d">>),
           <<label(DAILY), Home>>,
           DueOn(20, PyStr(EveryDay), PyBool(TRUE), Absent)),
      Task(None, Title(<<"GREEN_CIRCLE">>, TicketId("C", 1, 1, <<"0","0">>), <<"Z","e","d">>),
           <<label(DAILY)>>,
           DueOn(20, PyStr(<<"N","o","v"," ","2","0">>), Absent, PyBool(FALSE))),
      Task(None, Title(<<"GREEN_CIRCLE">>, TicketId("C", 1, 1, <<"0","0">>), <<"a","b","c">>),
           <<label(DAILY), Home>>,
           DueOn(21, PyStr(Tomorrow), PyBool(FALSE), Absent)),
      Task(None, Title(<<"GREEN_CIRCLE">>, TicketId("C", 1, 2, <<"0","0">>), <<"a","b","c">>),
           <<label(DAILY), Home>>,
           DueOn(20, PyStr(Tomorrow), PyBool(FALSE), Absent)),
      Task(None, Title(<<"GREEN_CIRCLE">>, TicketId("C", 3, 1, <<"0","0">>), <<"a","b","c">>),
           <<label(DAILY), label(DAILY), Home>>,
           DueOn(19, Absent, Absent, Absent)),
      Task(None, Title(<<"RED_CIRCLE">>, TicketId("C", 2, 1, <<"0","0">>), <<"a","b","c">>),
           <<label(DAILY), Home>>,
           DueOn(21, PyStr(EveryDay), PyBool(TRUE), Absent)),
      Task(None, Title(<<"YELLOW_CIRCLE">>, TicketId("A", 1, 1, <<"0","0">>), <<"a","b","c">>),
           <<label(WEEKLY), label(DAILY), Home>>,
           DueOn(22, PyStr(Tomorrow), PyBool(FALSE), Absent)),
      Task(None, Title(<<"YELLOW_CIRCLE">>, TicketId("A", 1, 2, <<"0","0">>), <<"a","b","c">>),
           <<label(WEEKLY), Home>>,
           DueOn(23, PyStr(Tomorrow), PyBool(FALSE), Absent)),
      Task(None, Title(<<"GREEN_CIRCLE", "VS16">>, TicketId("C", 2, 2, <<"0","0">>), <<"a","b","c">>),
           <<Home, label(DAILY)>>,
           RawDue(PyStr(NaiveLateEvening), PyStr(Tomorrow), PyBool(FALSE), Absent, Absent)),
      Task(None, PyStr(<<"B","u","y"," ","m","i","l","k">>), <<Home>>, None),
      Task(None, PyStr(<<"B","u","y"," ","m","i","l","k">>), <<>>,
           RawDue(PyStr(NotADate), PyStr(Tomorrow), PyBool(FALSE), Absent, Absent)) }
RunBatches ==
    UNION {{[i \in 1..n |-> [b[i] EXCEPT !.id = PyStr(<<DigitChars[i + 1]>>)]] :
              b \in [1..n -> RunTaskShapes]} : n \in 0..MaxTasks}
\* run_todoist_integration calls categorize_tasks(tasks) with no now argument
InitIntegration ==
    /\ utc_now \in RunInstants
    /\ sys_off \in ZoneOffsets
    /\ TIME_ZONE \in {[k |-> "unset"]} \cup {[k |-> "zone", off |-> o] : o \in ZoneOffsets}
    /\ tasks \in RunBatches
    /\ now_arg = None
    /\ idx = 0
    /\ overdue_tasks = <<>>
    /\ not_overdue_tasks = <<>>
    /\ api = <<>>
    /\ Offline
    /\ pc = "categorize"
    /\ call = None
    /\ ret = Pending
NextIntegration == CategorizeTask \/ CategorizeReturn \/ UpdateOverdueDaily \/ Report
SpecIntegration == InitIntegration /\ [][NextIntegration]_vars

Responded == pc = "responded"
\* the tasks of the three reported buckets
Reported ==
    ret.content.overdue_tasks \o ret.content.today_tasks \o ret.content.future_tasks
\* the ticket id of a reported task: a non-empty string, or None
TicketIdOf(t) == IF t.title.is_complete THEN t.title.parts.id ELSE None

\* C13: after the batch-wide pass a task's title.duplicated_id is true iff
\* its ticket id is non-empty and more than one task of the whole batch
\* (overdue, today and future together) carries it; the tasks sharing an id
\* are all flagged, and a task without an id is never flagged.
C13_DuplicatedId ==
    Responded =>
        \A i \in 1..Len(Reported) :
            /\ Reported[i].title.duplicated_id.b <=>
                  /\ TicketIdOf(Reported[i]) # None
                  /\ TicketIdOf(Reported[i]).s # <<>>
                  /\ \E j \in 1..Len(Reported) :
                        j # i /\ TicketIdOf(Reported[j]) = TicketIdOf(Reported[i])
            /\ \A j \in 1..Len(Reported) :
                  (TicketIdOf(Reported[i]) # None
                       /\ TicketIdOf(Reported[j]) = TicketIdOf(Reported[i]))
                  => Reported[j].title.duplicated_id = Reported[i].title.duplicated_id
            /\ TicketIdOf(Reported[i]) = None
                  => Reported[i].title.duplicated_id = PyBool(FALSE)
\* two tasks of different buckets share an id and both are flagged
C13_Witness ==
    /\ Responded
    /\ Len(ret.content.overdue_tasks) = 1
    /\ Len(ret.content.today_tasks) = 1
    /\ ret.content.overdue_tasks[1].title.duplicated_id = PyBool(TRUE)
    /\ ret.content.today_tasks[1].title.duplicated_id = PyBool(TRUE)

\* the tasks categorize_tasks has assembled so far
AssembledTasks == overdue_tasks \o not_overdue_tasks
\* the positions of the recognized frequency labels in a label list
FrequencyPositions(labels) ==
    {i \in 1..Len(labels) : \E f \in AllFrequencies : label(f) = labels[i]}
GlyphOf(lab) == (CHOOSE f \in AllFrequencies : label(f) = lab).emoji

\* C17: frequency_matches_label is true iff the label list holds exactly one
\* recognized frequency label, repeated occurrences counted, and the glyph of
\* that label equals the freq glyph of the parsed title; it is false when the
\* title has no parts or the number of recognized labels is 0 or above 1.
C17_FrequencyMatchesLabel ==
    \A i \in 1..Len(AssembledTasks) :
        \E t \in {AssembledTasks[i]} :
            /\ t.frequency_labels.frequency_matches_label <=>
                  /\ Cardinality(FrequencyPositions(t.labels)) = 1
                  /\ t.title.parts # None
                  /\ \A p \in FrequencyPositions(t.labels) :
                        GlyphOf(t.labels[p]) = t.title.parts.freq.s
            /\ (t.title.parts = None \/ Cardinality(FrequencyPositions(t.labels)) # 1)
                  => ~t.frequency_labels.frequency_matches_label
\* one task whose single daily label matches its title, and one whose daily
\* label is repeated
C17_Witness ==
    /\ pc = "done"
    /\ Len(AssembledTasks) = 2
    /\ \E i, j \in 1..2 :
          /\ AssembledTasks[i].frequency_labels.frequency_matches_label
          /\ AssembledTasks[i].frequency_labels.count = 1
          /\ AssembledTasks[j].frequency_labels.count = 2
          /\ AssembledTasks[j].title.parts.freq = PyStr(DAILY.emoji)
          /\ ~AssembledTasks[j].frequency_labels.frequency_matches_label

\* what the claim calls a failing check
ChecksFailing(t) ==
    [c \in 1..5 |->
        CASE c = 1 -> ~t.title.is_complete
          [] c = 2 -> t.title.duplicated_id = PyBool(TRUE)
          [] c = 3 -> t.title.sequential_id = PyBool(FALSE)
          [] c = 4 -> ~t.frequency_labels.frequency_matches_label
          [] c = 5 -> ~t.frequency_labels.has_non_frequency]
\* the entries of issue_tasks for one task
IssueEntries(t) ==
    {e \in 1..Len(ret.content.issue_tasks) : ret.content.issue_tasks[e].task_id = t.id}
\* C18: a task appears in issue_tasks iff one of the five checks fails for
\* it, and then once; its issues are exactly the failing checks, each once,
\* in the order: title is incomplete, duplicated ticket id, non-sequential
\* ticket id, frequency emoji does not match label, missing non-frequency
\* label.
C18_IssueTasks ==
    Responded =>
        \A i \in 1..Len(Reported) :
            \E t \in {Reported[i]} :
                /\ IssueEntries(t) # {} <=> \E c \in 1..5 : ChecksFailing(t)[c]
                /\ Cardinality(IssueEntries(t)) <= 1
                /\ \A e \in IssueEntries(t) :
                      \E issues \in {ret.content.issue_tasks[e].issues} :
                          /\ Len(issues) = Cardinality({c \in 1..5 : ChecksFailing(t)[c]})
                          /\ \A n \in 1..Len(issues) :
                                \E c \in 1..5 :
                                    /\ ChecksFailing(t)[c]
                                    /\ issues[n] = IssueChecks[c]
                                    /\ Cardinality({d \in 1..c : ChecksFailing(t)[d]}) = n
\* a task failing the first and the last check next to a task failing none
C18_Witness ==
    /\ Responded
    /\ Len(Reported) = 2
    /\ Len(ret.content.issue_tasks) = 1
    /\ ret.content.issue_tasks[1].issues =
          <<"title is incomplete", "non-sequential ticket id",
            "frequency emoji does not match label", "missing non-frequency label">>

\* the key the claim sorts by: the due date (the maximum date when it is
\* absent or unparseable), the ticket id and the lowercased text (the empty
\* string when absent)
\* the maximum possible date
MaxDate == Ymd(9999, 12, 31)
DueDateOf(t) ==
    IF t.due = None \/ ~Truthy(Get(t.due, "date")) THEN MaxDate
    ELSE IF Get(t.due, "date").k # "str" \/ IsRaise(fromisoformat(Get(t.due, "date")))
    THEN MaxDate
    ELSE DateOf(fromisoformat(Get(t.due, "date")))
IdOf(t) == IF t.title.parts = None THEN <<>> ELSE t.title.parts.id.s
LowerTextOf(t) == IF t.title.parts = None THEN <<>> ELSE Lower(t.title.parts.text.s)
InOrder(a, b) ==
    \/ DateLess(DueDateOf(a), DueDateOf(b))
    \/ /\ DueDateOf(a) = DueDateOf(b)
       /\ \/ StrLess(IdOf(a), IdOf(b))
          \/ IdOf(a) = IdOf(b) /\ ~StrLess(LowerTextOf(b), LowerTextOf(a))
Ascending(bucket) ==
    \A i, j \in 1..Len(bucket) : i < j => InOrder(bucket[i], bucket[j])
\* a task without the marks of the batch-wide pass
Unmarked(t) ==
    [t EXCEPT !.title.duplicated_id = Absent, !.title.sequential_id = Absent]
SameTasks(reported, assembled) ==
    /\ Len(reported) = Len(assembled)
    /\ {Unmarked(reported[i]) : i \in 1..Len(reported)}
          = {assembled[i] : i \in 1..Len(assembled)}
\* C19: each reported bucket is the assembled bucket reordered, no field
\* changed, into ascending order of (due date, ticket id, lowercased text),
\* an absent or unparseable due date counting as the maximum date and an
\* absent id or text as the empty string.
C19_SortedBuckets ==
    Responded =>
        /\ SameTasks(ret.content.overdue_tasks, overdue_tasks)
        /\ SameTasks(ret.content.today_tasks \o ret.content.future_tasks,
                     not_overdue_tasks)
        /\ Ascending(ret.content.overdue_tasks)
        /\ Ascending(ret.content.today_tasks)
        /\ Ascending(ret.content.future_tasks)
\* two overdue tasks of the same date and id come out in the order of their
\* lowercased texts, against the order they were fetched in
C19_Witness ==
    /\ Responded
    /\ Len(overdue_tasks) = 2
    /\ ret.content.overdue_tasks[1].id = overdue_tasks[2].id
    /\ ret.content.overdue_tasks[1].title.parts.text = PyStr(<<"a","b","d">>)
    /\ ret.content.overdue_tasks[2].title.parts.text = PyStr(<<"Z","e","d">>)

\* the due info of the task says it recurs
StillRecurring(t) ==
    Truthy(Get(t.due, "recurring")) \/ Truthy(Get(t.due, "is_recurring"))
CarriesDaily(t) == \E i \in 1..Len(t.labels) : t.labels[i] = label(DAILY)
UpdatedIds == {api[i].task_id : i \in 1..Len(api)}
\* C20: update_overdue_daily_tasks invokes update_task, with the current
\* local date as due date, for exactly the overdue tasks that carry the daily
\* label and whose due info is still recurring; a daily-labelled overdue task
\* that is not recurring is never updated, nor is a task outside the overdue
\* bucket.
C20_DailyRecurringOnly ==
    pc = "updated" =>
        /\ \A i \in 1..Len(overdue_tasks) :
              overdue_tasks[i].id \in UpdatedIds
                  <=> (CarriesDaily(overdue_tasks[i]) /\ StillRecurring(overdue_tasks[i]))
        /\ \A i \in 1..Len(not_overdue_tasks) :
              not_overdue_tasks[i].id \notin UpdatedIds
        /\ \A i \in 1..Len(api) : api[i].due_date = DateOf(PyNow)

(***************************************************************************)
(* Claims about the stored text of an accepted title (SpecTitleObject).    *)
(***************************************************************************)
\* the edge characters the stored text is to be free of
EdgeClean(c) == ~IsSpace(c) /\ ~IsInvisibleEdge(c)
\* C26: the text of every accepted title holds no asterisk, does not begin
\* with a glyph of the emoji ranges, and neither begins nor ends with
\* whitespace or with a variation selector, zero-width joiner or byte-order
\* mark.
C26_NormalForm ==
    (pc = "returned" /\ call.fn = "validate_ticket_name" /\ ret.ok) =>
        \E text \in {ret.parts.text.s} :
            /\ \A i \in 1..Len(text) : text[i] # "*"
            /\ text # <<>> =>
                  /\ ~InEmojiRanges(text[1])
                  /\ EdgeClean(text[1])
                  /\ EdgeClean(text[Len(text)])

(***************************************************************************)
(* Claims about the today and future buckets of the report                 *)
(* (SpecIntegration).                                                      *)
(***************************************************************************)
\* the current date in the configured timezone
TodayInZone == DateOf(PyNowIn(get_timezone))
\* the due value of the task has a time component, and its instant (in the
\* configured timezone when it names none) is before the run
DueInstantPassed(t) ==
    /\ DueDateOf(t) # MaxDate
    /\ Contains(<<"T">>, Get(t.due, "date").s)
    /\ \E dt \in {fromisoformat(Get(t.due, "date"))} :
          DtLess(IF dt.aware THEN dt ELSE ReplaceTz(dt, get_timezone),
                 PyNowIn(get_timezone)) = PyBool(TRUE)
\* C27: in a status-ok report every task of today_tasks is due on the current
\* date of the configured timezone, every task of future_tasks has no due
\* date, an unparseable one or one strictly later than that date, and no task
\* whose due date or due instant has passed is among the future tasks.
C27_TodayAndFuture ==
    Responded =>
        /\ \A i \in 1..Len(ret.content.today_tasks) :
              DueDateOf(ret.content.today_tasks[i]) = TodayInZone
        /\ \A i \in 1..Len(ret.content.future_tasks) :
              /\ \/ DueDateOf(ret.content.future_tasks[i]) = MaxDate
                 \/ DateLess(TodayInZone, DueDateOf(ret.content.future_tasks[i]))
              /\ ~DueInstantPassed(ret.content.future_tasks[i])

(***************************************************************************)
(* Claims about the loop of categorize_tasks (SpecIntegration).            *)
(***************************************************************************)
\* what the loop body makes of the raw task at position i, from that task,
\* the reference instant and the timezone alone
AloneAt(i) ==
    AfterDue(tasks[i], _process_due_obj(tasks[i].due), CategorizeNow, get_timezone)
TokenNotFound == "TODOIST_SECRET_ID not found in environment variables."
\* str(exc): the message the exception was raised with; an exception the
\* model raises without one is told from the others by its type
str(error) == IF "msg" \in DOMAIN error THEN error.msg ELSE error.exc
\* the one call of the run at which the client raises, if any
NoFault == [at |-> "nowhere"]
\* the client raises at this update_task call
Hits(fault, task) == fault.at = "update_task" /\ fault.task_id = task.id
\* the value of a step, computed once: the element of a set of one element
TheOne(S) == CHOOSE x \in S : TRUE

\* categorize_tasks(tasks), the loop run to its end: the two buckets, or the
\* exception that leaves it
RECURSIVE categorize_tasks(_, _)
categorize_tasks(batch, n) ==
    IF n = 0 THEN [k |-> "buckets", overdue |-> <<>>, not_overdue |-> <<>>]
    ELSE TheOne({ IF IsRaise(before) THEN before
                  ELSE IF IsRaise(r) THEN r
                  ELSE IF r.overdue
                  THEN [before EXCEPT !.overdue = Append(@, r.task_data)]
                  ELSE [before EXCEPT !.not_overdue = Append(@, r.task_data)] :
                  before \in {categorize_tasks(batch, n - 1)},
                  r \in {CategorizeOne(batch[n], PyNow, get_timezone)} })

\* the update_task calls in order, whether any returned, and the exception
\* that left the function if one did: a task is updated when its
\* next_recurrence_date parses and is not after the local date; KeyError and
\* AttributeError of the client are logged, every other exception leaves
update_next_recurrence_due_dates(overdue, fault) ==
    LET Turn(task, acc) ==
            IF task.due = None
            THEN [acc EXCEPT !.error = Raise("AttributeError")]
            ELSE IF ~Truthy(Get(task.due, "next_recurrence_date")) THEN acc
            ELSE IF IsRaise(fromisoformat(Get(task.due, "next_recurrence_date"))) THEN acc
            ELSE IF DateLess(DateOf(PyNow),
                             DateOf(fromisoformat(Get(task.due, "next_recurrence_date"))))
            THEN acc
            ELSE LET update_task ==
                         [op |-> "update_task",
                          task_id |-> task.id,
                          due_date |-> DateOf(PyNow),
                          due_string |-> IF Truthy(Get(task.due, "string"))
                                         THEN Get(task.due, "string")
                                         ELSE PyStr(EveryDay),
                          raised |-> Hits(fault, task)]
                 IN IF ~Hits(fault, task)
                    THEN [acc EXCEPT !.calls = Append(@, update_task),
                                     !.updated_any = TRUE]
                    ELSE IF fault.exc \in {"KeyError", "AttributeError"}
                    THEN [acc EXCEPT !.calls = Append(@, update_task)]
                    ELSE [acc EXCEPT !.calls = Append(@, update_task),
                                     !.error = [k |-> "raise", exc |-> fault.exc,
                                                msg |-> fault.msg]]
        RECURSIVE Pass(_, _)
        Pass(i, acc) ==
            IF i > Len(overdue) \/ acc.error # None THEN acc
            ELSE Pass(i + 1, Turn(overdue[i], acc))
    IN Pass(1, [k |-> "calls", calls |-> <<>>, updated_any |-> FALSE, error |-> None])

\* Todoist after the update_task calls that returned: the due date and the
\* due string of each updated task are the ones sent, when Todoist shows them
Applied(held, calls, shown) ==
    LET Sent(t) == {n \in 1..Len(calls) : calls[n].task_id = t.id /\ ~calls[n].raised}
        Last(t) == CHOOSE n \in Sent(t) : \A n2 \in Sent(t) : n2 <= n
    IN IF ~shown THEN held
       ELSE [i \in 1..Len(held) |->
                IF Sent(held[i]) = {} \/ held[i].due = None THEN held[i]
                ELSE [held[i] EXCEPT
                         !.due["date"] = PyStr(DateIso(calls[Last(held[i])].due_date)),
                         !.due["string"] = calls[Last(held[i])].due_string]]

\* the bookkeeping of a run in progress (held in call): the fetches made,
\* whether the second pass updated a task, the exception that ended the try
\* block if any
Running(n, updated_any, error) ==
    [k |-> "run", n |-> n, updated_any |-> updated_any, error |-> error]
\* the exceptions the client may raise at a call: one the second pass logs
\* and one it does not
ClientErrors == {"KeyError", "ConnectionError"}
\* the update_task calls of a pass that raise: none, or those for one task
UpdateFaults ==
    {NoFault} \cup
    {[at |-> "update_task", task_id |-> t.id, exc |-> e, msg |-> "update failed"] :
        t \in {overdue_tasks[i] : i \in 1..Len(overdue_tasks)}, e \in ClientErrors}

\* token = get_todoist_token(); api = todoist_api_cls(token)
GetToken ==
    /\ pc = "run"
    /\ call' = Running(0, FALSE,
                       IF Truthy(env.TODOIST_SECRET_ID) THEN None
                       ELSE [k |-> "raise", exc |-> "RuntimeError",
                             msg |-> TokenNotFound])
    /\ pc' = IF Truthy(env.TODOIST_SECRET_ID) THEN "fetch" ELSE "respond"
    /\ UNCHANGED <<utc_now, sys_off, TIME_ZONE, tasks, now_arg, idx, overdue_tasks,
                   not_overdue_tasks, ret, api, server, env, cli>>
\* a variant that takes a fetch that raised for an empty batch
fetch_tasks_swallows_error ==
    /\ pc = "fetch"
    /\ \E raised \in BOOLEAN :
          /\ api' = Append(api, [op |-> "get_tasks", raised |-> raised])
          /\ tasks' = IF raised THEN <<>> ELSE server
    /\ call' = [call EXCEPT !.n = @ + 1]
    /\ pc' = "categorize"
    /\ UNCHANGED <<utc_now, sys_off, TIME_ZONE, now_arg, idx, overdue_tasks,
                   not_overdue_tasks, ret, server, env, cli>>
\* tasks = fetch_tasks(api): the batch Todoist holds, or the exception of
\* the client
fetch_tasks ==
    /\ pc = "fetch"
    /\ \E raised \in BOOLEAN :
          /\ api' = Append(api, [op |-> "get_tasks", raised |-> raised])
          /\ tasks' = IF raised THEN tasks ELSE server
          /\ call' = [call EXCEPT
                         !.n = @ + 1,
                         !.error = IF raised
                                   THEN [k |-> "raise", exc |-> "ConnectionError",
                                         msg |-> "fetch failed"]
                                   ELSE @]
          /\ pc' = IF raised THEN "respond" ELSE "categorize"
    /\ UNCHANGED <<utc_now, sys_off, TIME_ZONE, now_arg, idx, overdue_tasks,
                   not_overdue_tasks, ret, server, env, cli>>
\* overdue_tasks, not_overdue_tasks = categorize_tasks(tasks), after the
\* first, the second and the third fetch
CategorizeFetched ==
    /\ pc = "categorize"
    /\ \E c \in {categorize_tasks(tasks, Len(tasks))} :
          IF IsRaise(c)
          THEN /\ call' = [call EXCEPT !.error = c]
               /\ pc' = "respond"
               /\ UNCHANGED <<overdue_tasks, not_overdue_tasks>>
          ELSE /\ overdue_tasks' = c.overdue
               /\ not_overdue_tasks' = c.not_overdue
               /\ pc' = CASE call.n = 1 -> "daily"
                          [] call.n = 2 -> "next"
                          [] OTHER -> "respond"
               /\ call' = call
    /\ UNCHANGED <<utc_now, sys_off, TIME_ZONE, tasks, now_arg, idx, ret, api,
                   server, env, cli>>
\* update_overdue_daily_tasks(api, overdue_tasks)
DailyUpdated ==
    /\ pc = "daily"
    /\ \E fault \in UpdateFaults, shown \in BOOLEAN :
          \E u \in {update_overdue_daily_tasks(
                       overdue_tasks,
                       {i \in 1..Len(overdue_tasks) : Hits(fault, overdue_tasks[i])})} :
              IF IsRaise(u)
              THEN /\ call' = [call EXCEPT !.error = u]
                   /\ pc' = "respond"
                   /\ UNCHANGED <<api, server>>
              ELSE /\ api' = api \o u.calls
                   /\ server' = Applied(server, u.calls, shown)
                   /\ pc' = "fetch"
                   /\ call' = call
    /\ UNCHANGED <<utc_now, sys_off, TIME_ZONE, tasks, now_arg, idx, overdue_tasks,
                   not_overdue_tasks, ret, env, cli>>
\* a variant that never fetches a third time
NextRecurrenceUpdated_never_refetched ==
    /\ pc = "next"
    /\ \E fault \in UpdateFaults, shown \in BOOLEAN :
          \E u \in {update_next_recurrence_due_dates(overdue_tasks, fault)} :
              /\ api' = api \o u.calls
              /\ server' = Applied(server, u.calls, shown)
              /\ call' = [call EXCEPT !.updated_any = u.updated_any,
                                      !.error = u.error]
    /\ pc' = "respond"
    /\ UNCHANGED <<utc_now, sys_off, TIME_ZONE, tasks, now_arg, idx, overdue_tasks,
                   not_overdue_tasks, ret, env, cli>>
\* if _update_next_recurrence_due_dates(api, overdue_tasks, tz): the third
\* fetch follows when the pass updated a task
NextRecurrenceUpdated ==
    /\ pc = "next"
    /\ \E fault \in UpdateFaults, shown \in BOOLEAN :
          \E u \in {update_next_recurrence_due_dates(overdue_tasks, fault)} :
              /\ api' = api \o u.calls
              /\ server' = Applied(server, u.calls, shown)
              /\ call' = [call EXCEPT !.updated_any = u.updated_any,
                                      !.error = u.error]
              /\ pc' = IF u.error = None /\ u.updated_any THEN "fetch" ELSE "respond"
    /\ UNCHANGED <<utc_now, sys_off, TIME_ZONE, tasks, now_arg, idx, overdue_tasks,
                   not_overdue_tasks, ret, env, cli>>
\* the response: the report of the buckets, or the error response of the
\* except branch
Responding ==
    /\ pc = "respond"
    /\ ret' = IF call.error # None
              THEN [status_code |-> 500,
                    content |-> [status |-> "error", detail |-> str(call.error)]]
              ELSE OkResponse(overdue_tasks, not_overdue_tasks)
    /\ pc' = "responded"
    /\ UNCHANGED <<utc_now, sys_off, TIME_ZONE, tasks, now_arg, idx, overdue_tasks,
                   not_overdue_tasks, call, api, server, env, cli>>
\* one call of run_todoist_integration, step by step
run_todoist_integration ==
    \/ GetToken
    \/ fetch_tasks
    \/ CategorizeFetched
    \/ DailyUpdated
    \/ NextRecurrenceUpdated
    \/ Responding

\* what Todoist holds in the sampled runs: a daily task and a weekly task
\* whose next recurrence has come, a task without due date whose title is to
\* be rewritten, and a recurring task whose phrase is null
HeldShapes ==
    { Task(None, Title(<<"GREEN_CIRCLE">>, TicketId("C", 1, 1, <<"0","0">>), <<"a","b","c">>),
           <<label(DAILY), Home>>,
           DueOn(20, PyStr(EveryDay), PyBool(TRUE), Absent)),
      Task(None, Title(<<"YELLOW_CIRCLE">>, TicketId("C", 1, 2, <<"0","0">>), <<"a","b","c">>),
           <<label(WEEKLY), Home>>,
           DueOn(10, PyStr(EveryWeek), Absent, PyBool(TRUE))),
      Task(None, Title(<<"GREEN_CIRCLE">>, TicketId("C", 3, 1, <<"0","0">>), <<"a","*","b","c">>),
           <<Home>>, None),
      Task(None, PyStr(<<"B","u","y"," ","m","i","l","k">>), <<Home>>,
           DueOn(20, None, PyBool(TRUE), Absent)) }
HeldBatches ==
    UNION {{[i \in 1..n |-> [b[i] EXCEPT !.id = PyStr(<<DigitChars[i + 1]>>)]] :
              b \in [1..n -> HeldShapes]} : n \in 0..MaxTasks}
Token == <<"t","o","k","e","n">>
InitRunIntegration ==
    /\ utc_now \in RunInstants
    /\ sys_off \in ZoneOffsets
    /\ TIME_ZONE \in {[k |-> "unset"], [k |-> "zone", off |-> 0]}
    /\ tasks = <<>>
    /\ now_arg = None
    /\ idx = 0
    /\ overdue_tasks = <<>>
    /\ not_overdue_tasks = <<>>
    /\ api = <<>>
    /\ server \in HeldBatches
    /\ env \in {[TODOIST_SECRET_ID |-> t, OUTPUT_JSON_FILE |-> None] :
                   t \in {None, PyStr(<<>>), PyStr(Token)}}
    /\ cli = [runs |-> 0, raised |-> FALSE, file |-> None, exit |-> None]
    /\ pc = "run"
    /\ call = None
    /\ ret = Pending
NextRunIntegration == run_todoist_integration
SpecRunIntegration == InitRunIntegration /\ [][NextRunIntegration]_vars

(***************************************************************************)
(* Claims about run_todoist_integration as a whole (SpecRunIntegration).   *)
(***************************************************************************)
\* the positions of the log that hold a fetch, and those that hold an update
FetchesIn(log) == {i \in 1..Len(log) : log[i].op = "get_tasks"}
UpdatesIn(log) == {i \in 1..Len(log) : log[i].op = "update_task"}
\* the response run_todoist_integration makes of an exception
ErrorResponse(text) ==
    [status_code |-> 500, content |-> [status |-> "error", detail |-> text]]
TokenMissing == ~Truthy(env.TODOIST_SECRET_ID)
\* the first task of the batch last fetched whose assembly raises, if any
RaisingAt ==
    {i \in 1..Len(tasks) :
        /\ IsRaise(AloneAt(i))
        /\ \A j \in 1..(i - 1) : ~IsRaise(AloneAt(j))}
Attempted(log) == {log[i].task_id : i \in UpdatesIn(log)}
\* the calls the pass in progress makes when none of them raises
Unfailing ==
    IF pc = "daily"
    THEN update_overdue_daily_tasks(overdue_tasks, {}).calls
    ELSE update_next_recurrence_due_dates(overdue_tasks, NoFault).calls
\* C24: when an update_task call of either pass raises, the remaining tasks
\* of the pass are still attempted (the pass attempts the tasks it attempts
\* when no call raises) and no exception ends the run, which goes on to the
\* status-ok report.
C24_FailureAbsorbed ==
    [][(pc \in {"daily", "next"} /\ \E i \in UpdatesIn(api') : api'[i].raised) =>
          /\ call'.error = None
          /\ Attempted(SubSeq(api', Len(api) + 1, Len(api'))) = Attempted(Unfailing)]_vars

\* the recurrence phrase Todoist holds for the task
PhraseHeld(task_id) ==
    {Get(server[j].due, "string") :
        j \in {j \in 1..Len(server) : server[j].id = task_id /\ server[j].due # None}}
\* C25: every update that moves a due date to today carries, as due_string,
\* the recurrence phrase Todoist holds for the task, and "every day" only for
\* a task that has none.
C25_OwnPhrase ==
    [][(pc = "daily" \/ pc = "next") =>
          \A i \in UpdatesIn(api') \ UpdatesIn(api) :
              \A phrase \in PhraseHeld(api'[i].task_id) :
                  api'[i].due_string =
                      IF Truthy(phrase) THEN phrase ELSE PyStr(EveryDay)]_vars

\* C28: in a status-ok report every task of the batch last fetched appears
\* exactly once across overdue_tasks, today_tasks and future_tasks, with its
\* content and labels, and nothing else appears.
C28_ExactlyOnce ==
    (Responded /\ ret.status_code = 200) =>
        /\ Len(Reported) = Len(tasks)
        /\ \A i \in 1..Len(tasks) :
              /\ Cardinality({j \in 1..Len(Reported) : Reported[j].id = tasks[i].id}) = 1
              /\ \A j \in 1..Len(Reported) :
                    Reported[j].id = tasks[i].id =>
                        /\ Reported[j].content = tasks[i].content
                        /\ Reported[j].labels = tasks[i].labels
\* a report after three fetches, with a task in each of two buckets
C28_Witness ==
    /\ Responded /\ ret.status_code = 200
    /\ Cardinality(FetchesIn(api)) = 3
    /\ Len(ret.content.today_tasks) = 1
    /\ Len(ret.content.future_tasks) = 1

\* the log is: fetch, updates, fetch, updates, and a third fetch if last
TwoPasses(log, last) ==
    \E g \in FetchesIn(log) :
        /\ 1 \in FetchesIn(log) /\ 1 < g
        /\ FetchesIn(log) = {1, g} \cup (IF last THEN {Len(log)} ELSE {})
        /\ last => g < Len(log)
\* an update of the second pass returned
SecondPassUpdated(log) ==
    \E i \in UpdatesIn(log) :
        /\ ~log[i].raised
        /\ Cardinality({g \in FetchesIn(log) : g < i}) = 2
\* C29 as stated: in a run that returns ok no update_task call comes after
\* the last fetch; the order is fetch, daily updates, fetch, next-recurrence
\* updates, and a further fetch iff a next-recurrence update succeeded.
C29_Original ==
    (Responded /\ ret.status_code = 200) =>
        /\ TwoPasses(api, SecondPassUpdated(api))
        /\ api[Len(api)].op = "get_tasks"
\* C29 amended: in a run that returns ok no update_task call that succeeded
\* comes after the last fetch; the order is fetch, daily updates, fetch,
\* next-recurrence updates, and a further fetch iff a next-recurrence update
\* succeeded; a next-recurrence update that raised KeyError or
\* AttributeError may follow the last fetch.
C29_Amended ==
    (Responded /\ ret.status_code = 200) =>
        /\ TwoPasses(api, SecondPassUpdated(api))
        /\ \A i \in UpdatesIn(api) :
              ~api[i].raised => \E g \in FetchesIn(api) : i < g
\* both passes updated a task and the run fetched three times
C29_Witness ==
    /\ Responded /\ ret.status_code = 200
    /\ Cardinality(FetchesIn(api)) = 3
    /\ \E i, j \in UpdatesIn(api) :
          /\ i < j /\ ~api[i].raised /\ ~api[j].raised
          /\ \E g \in FetchesIn(api) : i < g /\ g < j

(***************************************************************************)
(* The command line run: main of src/src/run_service.py.  It calls         *)
(* run_todoist_integration, writes the report to the file OUTPUT_JSON_FILE *)
(* names, sends the title updates the report asks for, calls the           *)
(* integration again and writes the new report.  The calls of the          *)
(* integration run step by step, as above; ret is the result of the latest *)
(* one, cli.runs counts them and cli.raised tells that one raised.         *)
(***************************************************************************)
\* parsed.get(key) or [] on the content of the response; the older shape
\* with not_overdue_tasks is one run_todoist_integration never produces
_collect_tasks_from_parsed(parsed) ==
    LET list(key) == IF key \in DOMAIN parsed THEN parsed[key] ELSE <<>>
    IN list("overdue_tasks") \o list("today_tasks") \o list("future_tasks")
\* the (task_id, new_title) pairs of the tasks whose title is to be replaced
_apply_title_updates(parsed) ==
    LET all_tasks == _collect_tasks_from_parsed(parsed)
        marked == SelectSeq(all_tasks, LAMBDA t : t.title.to_replace)
    IN [i \in 1..Len(marked) |->
           <<marked[i].id, Get(marked[i].title, "combined")>>]
\* the update_task calls of _update_titles_in_todoist; the calls for the
\* ids in failing raise, which the loop logs
_update_titles_in_todoist(to_update, failing) ==
    LET sent == SelectSeq(to_update, LAMBDA u : Truthy(u[1]) /\ Truthy(u[2]))
    IN [i \in 1..Len(sent) |->
           [op |-> "update_task", task_id |-> sent[i][1], content |-> sent[i][2],
            raised |-> sent[i][1] \in failing]]
\* what Todoist holds after the title updates, when it shows them
Retitled(held, calls, shown) ==
    LET Sent(t) == {n \in 1..Len(calls) : calls[n].task_id = t.id /\ ~calls[n].raised}
    IN IF ~shown THEN held
       ELSE [i \in 1..Len(held) |->
                IF Sent(held[i]) = {} THEN held[i]
                ELSE [held[i] EXCEPT
                         !.content = calls[CHOOSE n \in Sent(held[i]) : TRUE].content]]

\* return code
Exit(code) == cli' = [cli EXCEPT !.exit = PyInt(code)]
\* a variant that returns 0 when the integration raised
Main_returns_0 ==
    /\ pc = "main"
    /\ \/ /\ cli' = [cli EXCEPT !.runs = 1, !.raised = TRUE, !.exit = PyInt(0)]
          /\ pc' = "exit"
       \/ /\ cli' = [cli EXCEPT !.runs = 1]
          /\ pc' = "run"
    /\ UNCHANGED <<utc_now, sys_off, TIME_ZONE, tasks, now_arg, idx, overdue_tasks,
                   not_overdue_tasks, call, ret, api, server, env>>
\* result = await run_todoist_integration(): the call starts, or an
\* exception leaves it and main returns 1
Main ==
    /\ pc = "main"
    /\ \/ /\ cli' = [cli EXCEPT !.runs = 1, !.raised = TRUE, !.exit = PyInt(1)]
          /\ pc' = "exit"
       \/ /\ cli' = [cli EXCEPT !.runs = 1]
          /\ pc' = "run"
    /\ UNCHANGED <<utc_now, sys_off, TIME_ZONE, tasks, now_arg, idx, overdue_tasks,
                   not_overdue_tasks, call, ret, api, server, env>>
\* out_file is empty: the result is printed
MainPrint ==
    /\ pc = "responded" /\ cli.runs = 1
    /\ ~Truthy(env.OUTPUT_JSON_FILE)
    /\ Exit(0)
    /\ pc' = "exit"
    /\ UNCHANGED <<utc_now, sys_off, TIME_ZONE, tasks, now_arg, idx, overdue_tasks,
                   not_overdue_tasks, call, ret, api, server, env>>
\* _save_and_update_titles up to the title updates: the file is written, or
\* OSError ends the function; nothing to update, or no token, ends it too
SaveResult ==
    /\ pc = "responded" /\ cli.runs = 1
    /\ Truthy(env.OUTPUT_JSON_FILE)
    /\ \E written \in BOOLEAN :
          IF ~written
          THEN /\ Exit(0)
               /\ pc' = "exit"
          ELSE IF \/ _apply_title_updates(ret.content) = <<>>
                  \/ ~Truthy(env.TODOIST_SECRET_ID)
               THEN /\ cli' = [cli EXCEPT !.file = ret.content, !.exit = PyInt(0)]
                    /\ pc' = "exit"
               ELSE /\ cli' = [cli EXCEPT !.file = ret.content]
                    /\ pc' = "titles"
    /\ UNCHANGED <<utc_now, sys_off, TIME_ZONE, tasks, now_arg, idx, overdue_tasks,
                   not_overdue_tasks, call, ret, api, server, env>>
\* await _update_titles_in_todoist(to_update, token)
UpdateTitles ==
    /\ pc = "titles"
    /\ \E failing \in SUBSET {server[i].id : i \in 1..Len(server)}, shown \in BOOLEAN :
          \E calls \in {_update_titles_in_todoist(
                            _apply_title_updates(ret.content), failing)} :
              /\ api' = api \o calls
              /\ server' = Retitled(server, calls, shown)
    /\ pc' = "refetch"
    /\ UNCHANGED <<utc_now, sys_off, TIME_ZONE, tasks, now_arg, idx, overdue_tasks,
                   not_overdue_tasks, call, ret, env, cli>>
\* updated_result = await run_todoist_integration(): the call starts, or an
\* exception leaves it and main returns 1
Refetch ==
    /\ pc = "refetch"
    /\ \/ /\ cli' = [cli EXCEPT !.runs = 2, !.raised = TRUE, !.exit = PyInt(1)]
          /\ pc' = "exit"
       \/ /\ cli' = [cli EXCEPT !.runs = 2]
          /\ pc' = "run"
    /\ UNCHANGED <<utc_now, sys_off, TIME_ZONE, tasks, now_arg, idx, overdue_tasks,
                   not_overdue_tasks, call, ret, api, server, env>>
\* the updated result is written; OSError is reported and main returns 0
SaveUpdated ==
    /\ pc = "responded" /\ cli.runs = 2
    /\ \E written \in BOOLEAN :
          cli' = [cli EXCEPT !.file = IF written THEN ret.content ELSE @,
                             !.exit = PyInt(0)]
    /\ pc' = "exit"
    /\ UNCHANGED <<utc_now, sys_off, TIME_ZONE, tasks, now_arg, idx, overdue_tasks,
                   not_overdue_tasks, call, ret, api, server, env>>

\* the path OUTPUT_JSON_FILE names when it is set
OutPath == <<"o","u","t",".","j","s","o","n">>
\* a run at noon UTC on 2025-11-22, the system's zone being UTC
InitService ==
    /\ utc_now = DateTime(2025, 11, 22, 12, 0, 0, TRUE, 0)
    /\ sys_off = 0
    /\ TIME_ZONE = [k |-> "unset"]
    /\ tasks = <<>>
    /\ now_arg = None
    /\ idx = 0
    /\ overdue_tasks = <<>>
    /\ not_overdue_tasks = <<>>
    /\ api = <<>>
    /\ server \in HeldBatches
    /\ env \in {[TODOIST_SECRET_ID |-> t, OUTPUT_JSON_FILE |-> f] :
                   t \in {None, PyStr(Token)},
                   f \in {None, PyStr(OutPath)}}
    /\ cli = [runs |-> 0, raised |-> FALSE, file |-> None, exit |-> None]
    /\ pc = "main"
    /\ call = None
    /\ ret = Pending
NextService ==
    \/ Main
    \/ run_todoist_integration
    \/ MainPrint
    \/ SaveResult
    \/ UpdateTitles
    \/ Refetch
    \/ SaveUpdated
SpecService == InitService /\ [][NextService]_vars

(***************************************************************************)
(* Claims about the command line run (SpecService).                        *)
(***************************************************************************)
\* the positions of the log that hold a title update
TitleUpdatesIn(log) ==
    {i \in 1..Len(log) : log[i].op = "update_task" /\ "content" \in DOMAIN log[i]}
\* the tasks of a report whose title is to be replaced
ToReplace(parsed) ==
    {t \in {_collect_tasks_from_parsed(parsed)[i] :
                i \in 1..Len(_collect_tasks_from_parsed(parsed))} : t.title.to_replace}
\* the title updates of the log are those the report asks for
TitlesSent(parsed, log) ==
    /\ \A t \in ToReplace(parsed) :
          \E i \in TitleUpdatesIn(log) :
              log[i].task_id = t.id /\ log[i].content = t.title.combined
    /\ \A i \in TitleUpdatesIn(log) :
          \E t \in ToReplace(parsed) :
              log[i].task_id = t.id /\ log[i].content = t.title.combined
\* main has returned after one call of the integration, which returned
ReturnedAfterOne == pc = "exit" /\ cli.runs = 1 /\ ~cli.raised
\* C21: in every run of main whose report holds a task with title.to_replace
\* true, update_task is called to replace that task's content with its
\* title.combined, and a task whose to_replace is false is never sent a
\* content update: stated where main has sent its title updates, and
\* where it has returned without calling the integration again.
C21_TitlesReplaced ==
    (pc = "refetch" \/ ReturnedAfterOne) => TitlesSent(ret.content, api)

\* how far main has come: every step of it moves this measure up, and the
\* measure is 40 at the exit
StepOf ==
    CASE pc = "main" -> 0
      [] pc = "run" -> 1
      [] pc = "fetch" -> 2 + 3 * call.n
      [] pc = "categorize" -> 3 * call.n
      [] pc = "daily" -> 4
      [] pc = "next" -> 7
      [] pc = "respond" -> 11
      [] pc = "responded" -> 12
      [] pc = "titles" -> 13
      [] pc = "refetch" -> 14
      [] OTHER -> 40
Progress == IF pc = "exit" THEN 40 ELSE StepOf + (IF cli.runs = 2 THEN 20 ELSE 0)
\* the guard of a step of main holds
Continues ==
    \/ pc \in {"main", "run", "fetch", "categorize", "daily", "next", "respond",
               "titles", "refetch"}
    \/ pc = "responded" /\ cli.runs \in {1, 2}
\* what every state of a run of main satisfies: the exit code is 0 or 1, and
\* 1 iff a call of the integration raised; the integration is called at most
\* twice, the second time only after the title updates were sent; short of
\* the exit a step can be taken
ExitCodes ==
    /\ cli.runs \in 0..2
    /\ cli.exit \in {None, PyInt(0), PyInt(1)}
    /\ pc = "exit" <=> cli.exit # None
    /\ pc = "exit" => (cli.exit = PyInt(1) <=> cli.raised)
    /\ pc # "exit" => ~cli.raised /\ Continues /\ Progress < 40
    /\ cli.runs < 2 =>
          \A i \in TitleUpdatesIn(api), g \in FetchesIn(api) : g < i
    /\ cli.runs = 2 =>
          /\ \E a, b \in 1..Len(api) :
                /\ a <= b /\ TitleUpdatesIn(api) = a..b
                /\ \E g \in FetchesIn(api) : g < a
          /\ pc # "exit" => cli.file # None /\ TitlesSent(cli.file, api)
\* C30: main always terminates with exit code 0 or 1; it returns 1 iff a
\* call of the integration raised, and 0 otherwise, also when writing the
\* file fails or a title update fails; it calls the integration at most
\* twice, the second time only after the title updates were sent.
\* Termination: every step moves Progress up, Progress is at most 40, and
\* short of the exit a step can be taken.
C30_ExitCode == []ExitCodes /\ [][Progress' > Progress]_vars
\* main returned 0 after a title update raised and the integration was
\* called a second time
C30_Witness ==
    /\ pc = "exit" /\ cli.exit = PyInt(0) /\ cli.runs = 2
    /\ \E i \in TitleUpdatesIn(api) : api[i].raised

=============================================================================
